---- MODULE Spec2Model ----
(***************************************************************************)
(* Streaming core of the audio recorder/player (kairos1228/GUI-Project).   *)
(*                                                                         *)
(* Spec        control task + capture pipeline + storage-write pipeline    *)
(*             (audio_control_task, audio_record_task, pdm_interrupt_      *)
(*             handler, file_write_task).                                  *)
(* SpecPlay    split reader/feeder playback (file_read_task, playback_task *)
(*             of the two-task variant, i2s_tx_interrupt_handler).         *)
(* SpecSingle  single-task playback (playback_task of playback_task.c,     *)
(*             i2s_tx_interrupt_handler).                                  *)
(* FairSingle  SpecSingle with weak fairness on the task and on the sink   *)
(*             interrupt.                                                  *)
(*                                                                         *)
(* Spec starts with an empty card; SpecPlay and SpecSingle start with the  *)
(* stored files of PlayLibrary on it.                                      *)
(*                                                                         *)
(* Tasks are preemptively scheduled (configUSE_PREEMPTION 1, time slicing  *)
(* on): tasks of equal priority interleave at every step, the record task  *)
(* (priority 4) runs before the priority-3 tasks whenever it is ready, and *)
(* the two interrupt handlers run between any two task steps.              *)
(***************************************************************************)
EXTENDS Integers, Sequences, FiniteSets, TLC

(***************************************************************************)
(* Bounds of the model.                                                    *)
(***************************************************************************)
\* Capacity of the capture buffer, in delivery units of the Capture Source
\* (the program's buffer holds 2000 units: 4 s * 16000 Hz * 2 / 64).
CaptureUnits == 2
\* Delivery units the Capture Source may run past the capacity before the
\* record task's next 100 ms poll (about 50 in the program).
MaxOverrunUnits == 1
\* Commands the command shell hands to the control task in one run.
MaxCommands == 3
\* Characters of the shell's line buffer.
CliBufferLen == 4
\* Capacity of file_read_queue (created outside the available sources).
FileReadQueueLen == 1
\* Files on the card when a playback run starts.
LibraryFiles == 5
\* Highest counter value for which the card may hold a rec_XXXX.wav file when
\* a name is looked for.
MaxRecFiles == 10
\* Largest per-channel sample count handed to an encoder.
MaxCodecSamples == 3
\* Recordings handed to file_write_task in a run of the writer on its own
MaxRecordings == 11

(***************************************************************************)
(* Program constants.                                                      *)
(***************************************************************************)
EVENT_IDLE == 1
EVENT_RECORDING == 2
EVENT_PLAYING == 4
EVENT_RECORDING_DONE == 16
EVENT_PLAYBACK_DONE == 32

NUM_CHANNELS == 2
PDM_HW_FIFO_SIZE == 64
RX_FIFO_TRIG_LEVEL == PDM_HW_FIFO_SIZE \div 2
SAMPLE_RATE_HZ == 16000
\* BUFFER_SIZE is RECORDING_DURATION_SEC * SAMPLE_RATE_HZ samples per channel
\* in the program; here it is CaptureUnits delivery units.
BUFFER_SIZE == CaptureUnits * RX_FIFO_TRIG_LEVEL
AUDIO_RECORD_QUEUE_LENGTH == 2
AUDIO_CMD_QUEUE_LENGTH == 5

WAV_HEADER_SIZE == 44
WAV_SAMPLE_RATE == 16000
WAV_BITS_PER_SAMPLE == 16
WAV_NUM_CHANNELS == 2

\* audio_data_ptr before the first activation
NullPtr == 0 - 1

\* One delivery of the Capture Source: RX_FIFO_TRIG_LEVEL samples per channel
DeliveryUnit == NUM_CHANNELS * RX_FIFO_TRIG_LEVEL
\* Capacity of recorded_data[] in samples
Capacity == NUM_CHANNELS * BUFFER_SIZE

CMD_START_RECORD == "CMD_START_RECORD"
CMD_STOP_RECORD == "CMD_STOP_RECORD"
CMD_LIST_FILES == "CMD_LIST_FILES"
CMD_PLAY_FILE == "CMD_PLAY_FILE"
CMD_DELETE_FILE == "CMD_DELETE_FILE"

(***************************************************************************)
(* File names and the Byte Store.                                          *)
(***************************************************************************)
\* snprintf "%03u": the decimal digits of n, zero-padded to a width of 3
RECURSIVE Digits(_)
Digits(n) == IF n < 10 THEN <<n>> ELSE Append(Digits(n \div 10), n % 10)

Pad3(n) ==
    LET d == Digits(n)
    IN  IF Len(d) >= 3 THEN d
        ELSE [i \in 1..3 |-> IF i <= 3 - Len(d) THEN 0 ELSE d[i - (3 - Len(d))]]

\* "audio_%03u.wav"
AudioName(n) == <<"audio_", Pad3(n), ".wav">>

MissingName == <<"missing", <<>>, ".wav">>

\* Names the store can hold in a run: one per record the writer can receive,
\* the files on the card when a playback run starts, and a name no file has
StoreNames ==
    {AudioName(n) : n \in 1..MaxCommands} \cup {AudioName(n) : n \in 1..LibraryFiles}
        \cup {MissingName}

\* Names the shell passes to play and rm
ArgNames == {AudioName(1), MissingName}

\* snprintf "%04u"
Pad4(n) ==
    LET d == Digits(n)
    IN  IF Len(d) >= 4 THEN d
        ELSE [i \in 1..4 |-> IF i <= 4 - Len(d) THEN 0 ELSE d[i - (4 - Len(d))]]

\* "rec_%04u.wav"
RecName(n) == <<"rec_", Pad4(n), ".wav">>

\* Names emfile_sd.c can come to probe or write
RecNames == {RecName(n) : n \in 0..MaxRecFiles}

NoHeader == [riff_header |-> "none"]
NoFile == [present |-> FALSE, header |-> NoHeader, payload |-> 0]
NoName == <<"", <<>>, "">>

(***************************************************************************)
(* Container codec: wav_header_init                                        *)
(* The uint32_t products stay far below 2^32 for every sample count the    *)
(* capture buffer can produce, so they are written without the wrap.       *)
(***************************************************************************)
wav_header_init(total_samples) ==
    LET data_bytes == total_samples * WAV_NUM_CHANNELS * (WAV_BITS_PER_SAMPLE \div 8)
        byte_rate  == WAV_SAMPLE_RATE * WAV_NUM_CHANNELS * (WAV_BITS_PER_SAMPLE \div 8)
    IN  [riff_header     |-> "RIFF",
         wav_size        |-> 36 + data_bytes,
         wave_header     |-> "WAVE",
         fmt_header      |-> "fmt ",
         fmt_chunk_size  |-> 16,
         audio_format    |-> 1,
         num_channels    |-> WAV_NUM_CHANNELS,
         sample_rate     |-> WAV_SAMPLE_RATE,
         byte_rate       |-> byte_rate,
         block_align     |-> WAV_NUM_CHANNELS * (WAV_BITS_PER_SAMPLE \div 8),
         bits_per_sample |-> WAV_BITS_PER_SAMPLE,
         data_header     |-> "data",
         data_bytes      |-> data_bytes]

(***************************************************************************)
(* State.                                                                  *)
(***************************************************************************)
VARIABLES
    \* shared IPC objects
    events,              \* audio_state_events: the set of bits that are set
    audio_cmd_queue,     \* shell -> control task
    audio_record_queue,  \* record task -> file write task
    file_read_queue,     \* control task -> file read task
    \* command shell (environment)
    cmds_issued,
    \* audio_control_task
    ctl_pc, cmd_msg, recording_active,
    \* audio_record_task
    rec_pc, record_msg,
    \* Capture Source (PDM/PCM block and its interrupt handler)
    pdm_active, audio_data_ptr,
    \* file_write_task
    fw_pc, fw_msg, file_counter, fw_filename, wav_header, fw_report,
    \* Byte Store
    store,
    \* history of the capture sessions (not program state)
    sessions, session_records, session_end,
    \* playback state shared with the I2S interrupt handler
    playback_buffer_ptr, playback_samples_remaining, playback_active,
    \* I2S transmitter activated (app_i2s_activate / app_i2s_deactivate)
    i2s_tx_active,
    \* play requests issued by the environment of the playback models
    plays_issued,
    \* file_read_task (two-task variant)
    pcm_playback_queue, fr_pc, fr_msg, samples_remaining, using_ping,
    current_buffer, samples_read, fr_pos,
    \* playback_task of the two-task variant
    pb_pc, pcm_msg,
    \* history of the read session (not program state)
    delivered, fr_session,
    \* playback_task of the single-task variant
    playback_queue, ps_pc, ps_msg, total_samples, ps_samples_read,
    ps_using_ping, ps_pos, ps_session,
    \* the file handles the program holds open (FS_FOpen without FS_FClose)
    fs_open_files,
    \* emfile_sd.c: the card as this module sees it, its mount flag and name
    \* counter, and the call in progress
    sd_card, emfile_mounted, sd_file_counter,
    find_pc, retry_count, out_filename, save_args, save_result,
    \* the name counter when the search for a free name began (history)
    find_start,
    \* app_wav_save_from_buffer: the samples its write loop has still to write,
    \* and the source range of every chunk it has written (history)
    remaining_samples, chunks_written,
    \* a header handed from an encoder to a decoder, and the decoder's result
    codec_pc, codec_args, codec_header, codec_from, codec_result,
    \* emfile_sd.c: the parsed build time (_compile_time, _compile_time_parsed)
    \* and the name app_emfile_generate_timestamp_filename returned
    compile_time, ts_filename,
    \* main.c (the button-driven loop): the flags of the loop, the level of
    \* the user button, the completion flag of app_i2s.c and the place the
    \* loop has reached
    button_flag, btn_pressed, is_recording, is_playing, audio_recorded,
    need_save_to_sd, i2s_flag, recorded_data_size, main_pc,
    \* cli_task: the character it received last, its line buffer and write
    \* index, and whether the line being typed was reported as too long
    \* (history)
    rx_char, cmd_buffer, cmd_index, line_too_long

ctlVars == <<ctl_pc, cmd_msg, recording_active>>
recVars == <<rec_pc, record_msg>>
pdmVars == <<pdm_active, audio_data_ptr>>
fwVars  == <<fw_pc, fw_msg, file_counter, fw_filename, wav_header, fw_report>>
histVars == <<sessions, session_records, session_end>>

sinkVars == <<playback_buffer_ptr, playback_samples_remaining, playback_active,
              i2s_tx_active>>
readVars == <<pcm_playback_queue, fr_pc, fr_msg, samples_remaining, using_ping,
              current_buffer, samples_read, fr_pos, delivered, fr_session>>
feedVars == <<pb_pc, pcm_msg>>
singleVars == <<playback_queue, ps_pc, ps_msg, total_samples, ps_samples_read,
                ps_using_ping, ps_pos, ps_session>>
emfileVars == <<sd_card, emfile_mounted, sd_file_counter, find_pc, retry_count,
                out_filename, save_args, save_result, find_start, remaining_samples, chunks_written>>
codecVars == <<codec_pc, codec_args, codec_header, codec_from, codec_result>>
\* the state of emfile_sd.c and of the codec, which no task touches
timeVars == <<compile_time, ts_filename>>
\* the state of the functions and loops that are modelled on their own
mainVars == <<button_flag, btn_pressed, is_recording, is_playing, audio_recorded,
              need_save_to_sd, i2s_flag, recorded_data_size, main_pc>>
cliVars == <<rx_char, cmd_buffer, cmd_index, line_too_long>>
standaloneVars == <<timeVars, mainVars, cliVars>>
offlineVars == <<emfileVars, codecVars, standaloneVars>>

\* everything the playback side owns (and what no task touches)
playbackVars == <<sinkVars, plays_issued, readVars, feedVars, singleVars,
                  offlineVars>>
\* everything the control, capture and storage-write side owns, but for
\* file_read_queue and the store, which the playback side uses too (and
\* what no task touches)
coreVars == <<events, audio_cmd_queue, audio_record_queue, cmds_issued, ctlVars,
              recVars, pdmVars, fwVars, histVars, offlineVars>>
\* the state of the tasks, their queues, the interrupt handlers and the store
taskVars == <<events, audio_cmd_queue, audio_record_queue, file_read_queue,
              cmds_issued, ctlVars, recVars, pdmVars, fwVars, store, histVars,
              sinkVars, plays_issued, readVars, feedVars, singleVars>>

vars == <<events, audio_cmd_queue, audio_record_queue, file_read_queue,
          cmds_issued, ctlVars, recVars, pdmVars, fwVars, store, histVars,
          playbackVars, offlineVars, fs_open_files>>

NoRecord == [buffer_ptr |-> "none", sample_count |-> 0, sample_rate |-> 0, num_channels |-> 0]
NoCmd == [cmd |-> "none", filename |-> NoName]

\* a pointer into one of the chunk buffers; NoPtr is NULL
NoPtr == [buf |-> "NULL", off |-> 0]
NoChunk == [buffer_ptr |-> "NULL", sample_count |-> 0, is_last_chunk |-> FALSE]

\* the control, capture and storage-write side after start-up
InitCore ==
    /\ events = {EVENT_IDLE}
    /\ audio_cmd_queue = <<>>
    /\ audio_record_queue = <<>>
    /\ file_read_queue = <<>>
    /\ cmds_issued = 0
    /\ ctl_pc = "receive"
    /\ cmd_msg = NoCmd
    /\ recording_active = FALSE
    /\ rec_pc = "wait_event"
    /\ record_msg = NoRecord
    /\ pdm_active = FALSE
    /\ audio_data_ptr = NullPtr
    /\ fw_pc = "receive"
    /\ fw_msg = NoRecord
    /\ file_counter = 1
    /\ fw_filename = NoName
    /\ wav_header = NoHeader
    /\ fw_report = "none"
    /\ sessions = 0
    /\ session_records = 0
    /\ session_end = "none"

\* the playback side after start-up: both tasks wait for their first message
InitPlayback ==
    /\ playback_buffer_ptr = NoPtr
    /\ playback_samples_remaining = 0
    /\ playback_active = FALSE
    /\ plays_issued = 0
    /\ pcm_playback_queue = <<>>
    /\ fr_pc = "receive"
    /\ fr_msg = [filename |-> NoName]
    /\ samples_remaining = 0
    /\ using_ping = TRUE
    /\ current_buffer = "NULL"
    /\ samples_read = 0
    /\ fr_pos = 0
    /\ delivered = <<>>
    /\ fr_session = "none"
    /\ pb_pc = "receive"
    /\ pcm_msg = NoChunk
    /\ playback_queue = <<>>
    /\ ps_pc = "receive"
    /\ ps_msg = [filename |-> NoName]
    /\ total_samples = 0
    /\ ps_samples_read = 0
    /\ ps_using_ping = TRUE
    /\ ps_pos = 0
    /\ ps_session = "none"

\* bytes of one chunk of the write loop
WAV_CHUNK_SIZE == 8 * 1024

\* what FS_FWrite returns when it writes less than the n bytes asked for
ShortWrites(n) == 0..(n - 1)

NoSaveArgs == [num_samples_per_channel |-> 0, sample_rate_hz |-> 0,
               num_channels |-> 0, bits_per_sample |-> 0, filename |-> NoName]
NoCodecArgs == [total_samples |-> 0, sample_rate |-> 0, num_channels |-> 0,
                bits_per_sample |-> 0]
NoResult == [parser |-> "none", rc |-> 0, total_samples |-> 0, warned |-> FALSE]

\* CLI_MAX_CMD_LENGTH is 64 in the program; here the line buffer has
\* CliBufferLen characters.
CLI_MAX_CMD_LENGTH == CliBufferLen
\* the character '\0'
NUL == "NUL"

\* _compile_time and _compile_time_parsed as initialised
NoCompileTime ==
    [year |-> 0, month |-> 0, day |-> 0, hour |-> 0, minute |-> 0, second |-> 0,
     parsed |-> FALSE]

\* no call of a stand-alone function is in progress
\* main() before the first pass of its loop
InitMainLoop ==
    /\ button_flag = FALSE
    /\ btn_pressed = FALSE
    /\ is_recording = FALSE
    /\ is_playing = FALSE
    /\ audio_recorded = FALSE
    /\ need_save_to_sd = FALSE
    /\ i2s_flag = FALSE
    /\ recorded_data_size = 0
    /\ main_pc = "top"

\* cli_task before its loop: the static buffer is zeroed
InitCliTask ==
    /\ rx_char = NUL
    /\ cmd_buffer = [i \in 0..(CLI_MAX_CMD_LENGTH - 1) |-> NUL]
    /\ cmd_index = 0
    /\ line_too_long = FALSE

InitStandalone ==
    /\ compile_time = NoCompileTime
    /\ ts_filename = NoName
    /\ InitMainLoop
    /\ InitCliTask

\* emfile_sd.c before app_emfile_init, with an empty card
InitEmfile ==
    /\ sd_card = [n \in RecNames |-> NoFile]
    /\ emfile_mounted = FALSE
    /\ sd_file_counter = 0
    /\ fs_open_files = 0
    /\ find_pc = "idle"
    /\ retry_count = 0
    /\ out_filename = NoName
    /\ save_args = NoSaveArgs
    /\ save_result = "none"
    /\ find_start = 0
    /\ remaining_samples = 0
    /\ chunks_written = <<>>
    /\ InitStandalone

\* no header under the codec
InitNoCodec ==
    /\ codec_pc = "idle"
    /\ codec_args = NoCodecArgs
    /\ codec_header = NoHeader
    /\ codec_from = "none"
    /\ codec_result = NoResult

InitOffline == InitEmfile /\ InitNoCodec

Init ==
    /\ InitCore
    /\ InitPlayback
    /\ InitOffline
    /\ i2s_tx_active = FALSE
    /\ store = [n \in StoreNames |-> NoFile]

(***************************************************************************)
(* FreeRTOS primitives used by the tasks.                                  *)
(***************************************************************************)
xEventGroupSetBits(ev, bits) == ev \cup bits
xEventGroupClearBits(ev, bits) == ev \ bits

\* The record task is ready to run: its event wait or its blocked send can
\* return.  It has the highest task priority, so no other task runs then.
RecordTaskReady ==
    \/ rec_pc = "wait_event" /\ EVENT_RECORDING \in events
    \/ rec_pc = "send_blocked" /\ Len(audio_record_queue) < AUDIO_RECORD_QUEUE_LENGTH

(***************************************************************************)
(* Command shell: hands a command to the control task (xQueueSend with no  *)
(* wait; a command that finds the queue full is dropped).  Any command the *)
(* control task dispatches on can arrive here; the lines cli_task turns    *)
(* into commands are the subject of SpecCli.                               *)
(***************************************************************************)
Commands ==
    {[cmd |-> c, filename |-> NoName] : c \in {CMD_START_RECORD, CMD_STOP_RECORD, CMD_LIST_FILES}}
    \cup {[cmd |-> c, filename |-> f] : c \in {CMD_PLAY_FILE, CMD_DELETE_FILE}, f \in ArgNames}

ShellSend ==
    /\ cmds_issued < MaxCommands
    /\ Len(audio_cmd_queue) < AUDIO_CMD_QUEUE_LENGTH
    /\ \E m \in Commands : audio_cmd_queue' = Append(audio_cmd_queue, m)
    /\ cmds_issued' = cmds_issued + 1
    /\ UNCHANGED <<fs_open_files, playbackVars, events, audio_record_queue, file_read_queue, ctlVars, recVars,
                   pdmVars, fwVars, store, histVars>>

(***************************************************************************)
(* audio_control_task                                                      *)
(***************************************************************************)
\* handle_start_record: events and recording_active after the call
handle_start_record ==
    IF recording_active
    THEN /\ UNCHANGED <<events, recording_active>>
    ELSE /\ events' = xEventGroupSetBits(
                        xEventGroupClearBits(events, {EVENT_IDLE, EVENT_RECORDING_DONE}),
                        {EVENT_RECORDING})
         /\ recording_active' = TRUE

\* handle_stop_record without its "not currently recording" early return
handle_stop_record_unguarded ==
    /\ events' = xEventGroupClearBits(events, {EVENT_RECORDING})
    /\ recording_active' = FALSE
    /\ ctl_pc' = "stop_wait"

\* handle_stop_record up to its bounded wait for EVENT_RECORDING_DONE
handle_stop_record ==
    IF ~recording_active
    THEN /\ UNCHANGED <<events, recording_active>>
         /\ ctl_pc' = "autostop"
    ELSE /\ events' = xEventGroupClearBits(events, {EVENT_RECORDING})
         /\ recording_active' = FALSE
         /\ ctl_pc' = "stop_wait"

\* handle_play_file up to its xQueueSend (100 ms wait when the queue is full)
handle_play_file(filename) ==
    /\ UNCHANGED recording_active
    /\ IF Len(file_read_queue) < FileReadQueueLen
       THEN /\ events' = xEventGroupClearBits(events, {EVENT_IDLE})
            /\ file_read_queue' = Append(file_read_queue, [filename |-> filename])
            /\ ctl_pc' = "autostop"
       ELSE /\ events' = xEventGroupClearBits(events, {EVENT_IDLE})
            /\ UNCHANGED file_read_queue
            /\ ctl_pc' = "play_send"

\* handle_list_files: every candidate name is opened for reading, its size
\* reported and the handle closed again
handle_list_files ==
    UNCHANGED <<events, recording_active, file_read_queue, store>>

\* a delete that also publishes Idle, as the handlers that end a session do
handle_delete_file_sets_idle(filename) ==
    /\ store' = [store EXCEPT ![filename] = NoFile]
    /\ events' = xEventGroupSetBits(xEventGroupClearBits(events, {EVENT_RECORDING}), {EVENT_IDLE})
    /\ UNCHANGED <<recording_active, file_read_queue>>

\* handle_delete_file: FS_Remove
handle_delete_file(filename) ==
    /\ store' = [store EXCEPT ![filename] = NoFile]
    /\ UNCHANGED <<events, recording_active, file_read_queue>>

\* xQueueReceive returned a command: the switch of the main loop
CtlReceive ==
    /\ ctl_pc = "receive"
    /\ ~RecordTaskReady
    /\ audio_cmd_queue # <<>>
    /\ cmd_msg' = Head(audio_cmd_queue)
    /\ audio_cmd_queue' = Tail(audio_cmd_queue)
    /\ LET m == Head(audio_cmd_queue) IN
       CASE m.cmd = CMD_START_RECORD ->
              /\ handle_start_record
              /\ ctl_pc' = "autostop"
              /\ UNCHANGED <<file_read_queue, store>>
         [] m.cmd = CMD_STOP_RECORD ->
              /\ handle_stop_record
              /\ UNCHANGED <<file_read_queue, store>>
         [] m.cmd = CMD_LIST_FILES ->
              /\ handle_list_files
              /\ ctl_pc' = "autostop"
         [] m.cmd = CMD_PLAY_FILE ->
              /\ handle_play_file(m.filename)
              /\ UNCHANGED store
         [] m.cmd = CMD_DELETE_FILE ->
              /\ handle_delete_file(m.filename)
              /\ ctl_pc' = "autostop"
    /\ UNCHANGED <<fs_open_files, playbackVars, audio_record_queue, cmds_issued, recVars, pdmVars, fwVars, histVars>>

\* xQueueReceive timed out after 200 ms with no command
CtlReceiveTimeout ==
    /\ ctl_pc = "receive"
    /\ ~RecordTaskReady
    /\ audio_cmd_queue = <<>>
    /\ ctl_pc' = "autostop"
    /\ UNCHANGED <<fs_open_files, playbackVars, events, audio_cmd_queue, audio_record_queue, file_read_queue, cmds_issued,
                   cmd_msg, recording_active, recVars, pdmVars, fwVars, store, histVars>>

\* handle_stop_record: xEventGroupWaitBits returned with EVENT_RECORDING_DONE
\* (cleared on exit), then EVENT_IDLE is set
CtlStopDone ==
    /\ ctl_pc = "stop_wait"
    /\ ~RecordTaskReady
    /\ EVENT_RECORDING_DONE \in events
    /\ events' = xEventGroupSetBits(xEventGroupClearBits(events, {EVENT_RECORDING_DONE}),
                                    {EVENT_IDLE})
    /\ ctl_pc' = "autostop"
    /\ UNCHANGED <<fs_open_files, playbackVars, audio_cmd_queue, audio_record_queue, file_read_queue, cmds_issued,
                   cmd_msg, recording_active, recVars, pdmVars, fwVars, store, histVars>>

CtlStopTimeoutStaysBusy ==
    /\ ctl_pc = "stop_wait"
    /\ ~RecordTaskReady
    /\ EVENT_RECORDING_DONE \notin events
    /\ ctl_pc' = "autostop"
    /\ UNCHANGED <<fs_open_files, playbackVars, events, audio_cmd_queue, audio_record_queue, file_read_queue,
                   cmds_issued, cmd_msg, recording_active, recVars, pdmVars, fwVars, store,
                   histVars>>

\* handle_stop_record: the 1 s wait timed out, EVENT_IDLE is set all the same
CtlStopTimeout ==
    /\ ctl_pc = "stop_wait"
    /\ ~RecordTaskReady
    /\ EVENT_RECORDING_DONE \notin events
    /\ events' = xEventGroupSetBits(events, {EVENT_IDLE})
    /\ ctl_pc' = "autostop"
    /\ UNCHANGED <<fs_open_files, playbackVars, audio_cmd_queue, audio_record_queue, file_read_queue, cmds_issued,
                   cmd_msg, recording_active, recVars, pdmVars, fwVars, store, histVars>>

\* handle_play_file: the blocked xQueueSend found room
CtlPlaySent ==
    /\ ctl_pc = "play_send"
    /\ ~RecordTaskReady
    /\ Len(file_read_queue) < FileReadQueueLen
    /\ file_read_queue' = Append(file_read_queue, [filename |-> cmd_msg.filename])
    /\ ctl_pc' = "autostop"
    /\ UNCHANGED <<fs_open_files, playbackVars, events, audio_cmd_queue, audio_record_queue, cmds_issued,
                   cmd_msg, recording_active, recVars, pdmVars, fwVars, store, histVars>>

\* handle_play_file: the xQueueSend failed after 100 ms, EVENT_IDLE is set
CtlPlaySendTimeout ==
    /\ ctl_pc = "play_send"
    /\ ~RecordTaskReady
    /\ Len(file_read_queue) >= FileReadQueueLen
    /\ events' = xEventGroupSetBits(events, {EVENT_IDLE})
    /\ ctl_pc' = "autostop"
    /\ UNCHANGED <<fs_open_files, playbackVars, audio_cmd_queue, audio_record_queue, file_read_queue, cmds_issued,
                   cmd_msg, recording_active, recVars, pdmVars, fwVars, store, histVars>>

CtlAutoStopKeepsDone ==
    /\ ctl_pc = "autostop"
    /\ ~RecordTaskReady
    /\ IF recording_active /\ EVENT_RECORDING_DONE \in events
       THEN /\ recording_active' = FALSE
            /\ events' = xEventGroupSetBits(events, {EVENT_IDLE})
       ELSE UNCHANGED <<recording_active, events>>
    /\ ctl_pc' = "receive"
    /\ UNCHANGED <<fs_open_files, playbackVars, audio_cmd_queue, audio_record_queue, file_read_queue, cmds_issued,
                   cmd_msg, recVars, pdmVars, fwVars, store, histVars>>

\* the auto-stop check at the end of each pass of the main loop
CtlAutoStop ==
    /\ ctl_pc = "autostop"
    /\ ~RecordTaskReady
    /\ IF recording_active /\ EVENT_RECORDING_DONE \in events
       THEN /\ recording_active' = FALSE
            /\ events' = xEventGroupSetBits(
                           xEventGroupClearBits(events, {EVENT_RECORDING_DONE}),
                           {EVENT_IDLE})
       ELSE UNCHANGED <<recording_active, events>>
    /\ ctl_pc' = "receive"
    /\ UNCHANGED <<fs_open_files, playbackVars, audio_cmd_queue, audio_record_queue, file_read_queue, cmds_issued,
                   cmd_msg, recVars, pdmVars, fwVars, store, histVars>>

\* file_read_task takes the play request off file_read_queue; the session it
\* then runs is the subject of SpecPlay and touches none of the variables here
FileReadTakes ==
    /\ ~RecordTaskReady
    /\ file_read_queue # <<>>
    /\ file_read_queue' = Tail(file_read_queue)
    /\ UNCHANGED <<fs_open_files, playbackVars, events, audio_cmd_queue, audio_record_queue, cmds_issued, ctlVars,
                   recVars, pdmVars, fwVars, store, histVars>>

(***************************************************************************)
(* Capture Source                                                          *)
(***************************************************************************)
\* get_audio_data_index
get_audio_data_index ==
    IF audio_data_ptr = NullPtr THEN 0 ELSE audio_data_ptr

\* a handler that treats recorded_data as a ring: at the end of the buffer
\* the write pointer goes back to its start
pdm_interrupt_handler_ring ==
    audio_data_ptr' = IF audio_data_ptr + NUM_CHANNELS * RX_FIFO_TRIG_LEVEL >= Capacity
                      THEN 0
                      ELSE audio_data_ptr + NUM_CHANNELS * RX_FIFO_TRIG_LEVEL

\* pdm_interrupt_handler, RX trigger: RX_FIFO_TRIG_LEVEL samples of each
\* channel are stored through audio_data_ptr, which advances past them
pdm_interrupt_handler ==
    audio_data_ptr' = audio_data_ptr + NUM_CHANNELS * RX_FIFO_TRIG_LEVEL

\* The interrupt fires while the channels are activated.
PdmInterrupt ==
    /\ pdm_active
    /\ audio_data_ptr < Capacity + MaxOverrunUnits * DeliveryUnit
    /\ pdm_interrupt_handler
    /\ UNCHANGED <<fs_open_files, playbackVars, events, audio_cmd_queue, audio_record_queue, file_read_queue,
                   cmds_issued, ctlVars, recVars, pdm_active, fwVars, store, histVars>>

(***************************************************************************)
(* audio_record_task                                                       *)
(***************************************************************************)
\* the Completed-Capture Record built from the write index
CaptureRecord(count) ==
    [buffer_ptr |-> "recorded_data", sample_count |-> count,
     sample_rate |-> SAMPLE_RATE_HZ, num_channels |-> NUM_CHANNELS]

\* the buffer-full test of the monitoring loop
BufferFull(count) == count >= NUM_CHANNELS * BUFFER_SIZE

\* xEventGroupWaitBits returned with EVENT_RECORDING: app_pdm_pcm_activate
RecStart ==
    /\ rec_pc = "wait_event"
    /\ EVENT_RECORDING \in events
    /\ audio_data_ptr' = 0
    /\ pdm_active' = TRUE
    /\ rec_pc' = "monitor"
    /\ sessions' = sessions + 1
    /\ session_records' = 0
    /\ session_end' = "none"
    /\ UNCHANGED <<fs_open_files, playbackVars, events, audio_cmd_queue, audio_record_queue, file_read_queue,
                   cmds_issued, ctlVars, record_msg, fwVars, store>>

\* xQueueSend of the record and what follows it: EVENT_RECORDING_DONE is set
\* when the send returns at once, otherwise the task blocks on the full queue
RecEmit(msg, ev) ==
    /\ record_msg' = msg
    /\ IF Len(audio_record_queue) < AUDIO_RECORD_QUEUE_LENGTH
       THEN /\ audio_record_queue' = Append(audio_record_queue, msg)
            /\ session_records' = session_records + 1
            /\ events' = xEventGroupSetBits(ev, {EVENT_RECORDING_DONE})
            /\ rec_pc' = "wait_event"
       ELSE /\ UNCHANGED <<audio_record_queue, session_records>>
            /\ events' = ev
            /\ rec_pc' = "send_blocked"

\* one pass of the monitoring loop, entered every 100 ms
RecPoll ==
    /\ rec_pc = "monitor"
    /\ IF EVENT_RECORDING \notin events
       THEN \* stop requested: deactivate, then read the final index
            /\ pdm_active' = FALSE
            /\ session_end' = "stop"
            /\ RecEmit(CaptureRecord(get_audio_data_index), events)
       ELSE IF BufferFull(get_audio_data_index)
       THEN \* buffer full: deactivate, clear EVENT_RECORDING
            /\ pdm_active' = FALSE
            /\ session_end' = "full"
            /\ RecEmit(CaptureRecord(get_audio_data_index),
                       xEventGroupClearBits(events, {EVENT_RECORDING}))
       ELSE \* vTaskDelay(100 ms)
            /\ UNCHANGED <<events, audio_record_queue, recVars, pdm_active,
                           session_records, session_end>>
    /\ UNCHANGED <<fs_open_files, playbackVars, audio_cmd_queue, file_read_queue, cmds_issued, ctlVars,
                   audio_data_ptr, fwVars, store, sessions>>

\* the blocked xQueueSend found room within its 100 ms
RecSendUnblocked ==
    /\ rec_pc = "send_blocked"
    /\ Len(audio_record_queue) < AUDIO_RECORD_QUEUE_LENGTH
    /\ audio_record_queue' = Append(audio_record_queue, record_msg)
    /\ session_records' = session_records + 1
    /\ events' = xEventGroupSetBits(events, {EVENT_RECORDING_DONE})
    /\ rec_pc' = "wait_event"
    /\ UNCHANGED <<fs_open_files, playbackVars, audio_cmd_queue, file_read_queue, cmds_issued, ctlVars, record_msg,
                   pdmVars, fwVars, store, sessions, session_end>>

\* the xQueueSend failed after 100 ms: the error is printed and the record
\* is not sent; EVENT_RECORDING_DONE is set all the same
RecSendTimeout ==
    /\ rec_pc = "send_blocked"
    /\ Len(audio_record_queue) >= AUDIO_RECORD_QUEUE_LENGTH
    /\ events' = xEventGroupSetBits(events, {EVENT_RECORDING_DONE})
    /\ rec_pc' = "wait_event"
    /\ UNCHANGED <<fs_open_files, playbackVars, audio_cmd_queue, audio_record_queue, file_read_queue, cmds_issued,
                   ctlVars, record_msg, pdmVars, fwVars, store, histVars>>

(***************************************************************************)
(* file_write_task                                                         *)
(***************************************************************************)
\* generate_filename: the name for the current counter
generate_filename == AudioName(file_counter)

\* bytes of PCM data handed to FS_Write
DataBytes(msg) == msg.sample_count * 2

\* xQueueReceive returned a record: name, header, FS_FOpen(filename, "w")
FwReceive ==
    /\ fw_pc = "receive"
    /\ ~RecordTaskReady
    /\ audio_record_queue # <<>>
    /\ fw_msg' = Head(audio_record_queue)
    /\ audio_record_queue' = Tail(audio_record_queue)
    /\ fw_filename' = generate_filename
    /\ file_counter' = file_counter + 1
    /\ wav_header' = wav_header_init(Head(audio_record_queue).sample_count)
    /\ \E opened \in BOOLEAN :
         IF opened
         THEN /\ store' = [store EXCEPT ![generate_filename] =
                              [present |-> TRUE, header |-> NoHeader, payload |-> 0]]
              /\ fs_open_files' = fs_open_files + 1
              /\ fw_pc' = "write_header"
              /\ fw_report' = "none"
         ELSE /\ UNCHANGED <<store, fs_open_files>>
              /\ fw_pc' = "receive"
              /\ fw_report' = "open_failed"
    /\ UNCHANGED <<playbackVars, events, audio_cmd_queue, file_read_queue, cmds_issued, ctlVars,
                   recVars, pdmVars, histVars>>

\* FS_Write of the header; on a short write the file is closed
FwWriteHeader ==
    /\ fw_pc = "write_header"
    /\ ~RecordTaskReady
    /\ \E ok \in BOOLEAN :
         IF ok
         THEN /\ store' = [store EXCEPT ![fw_filename].header = wav_header]
              /\ fw_pc' = "write_data"
              /\ UNCHANGED <<fw_report, fs_open_files>>
         ELSE /\ UNCHANGED store
              /\ fs_open_files' = fs_open_files - 1
              /\ fw_pc' = "receive"
              /\ fw_report' = "header_failed"
    /\ UNCHANGED <<playbackVars, events, audio_cmd_queue, audio_record_queue, file_read_queue,
                   cmds_issued, ctlVars, recVars, pdmVars, fw_msg, file_counter,
                   fw_filename, wav_header, histVars>>

\* FS_Write of the PCM data out of record_msg.buffer_ptr, then FS_FClose
FwWriteData ==
    /\ fw_pc = "write_data"
    /\ ~RecordTaskReady
    /\ \E ok \in BOOLEAN :
         IF ok
         THEN /\ store' = [store EXCEPT ![fw_filename].payload = DataBytes(fw_msg)]
              /\ fw_report' = "saved"
         ELSE /\ UNCHANGED store
              /\ fw_report' = "data_failed"
    /\ fs_open_files' = fs_open_files - 1
    /\ fw_pc' = "receive"
    /\ UNCHANGED <<playbackVars, events, audio_cmd_queue, audio_record_queue, file_read_queue,
                   cmds_issued, ctlVars, recVars, pdmVars, fw_msg, file_counter,
                   fw_filename, wav_header, histVars>>

(***************************************************************************)
(* Specification of the control, capture and storage-write side.           *)
(***************************************************************************)
Next ==
    \/ ShellSend
    \/ CtlReceive
    \/ CtlReceiveTimeout
    \/ CtlStopDone
    \/ CtlStopTimeout
    \/ CtlPlaySent
    \/ CtlPlaySendTimeout
    \/ CtlAutoStop
    \/ FileReadTakes
    \/ PdmInterrupt
    \/ RecStart
    \/ RecPoll
    \/ RecSendUnblocked
    \/ RecSendTimeout
    \/ FwReceive
    \/ FwWriteHeader
    \/ FwWriteData

Spec == Init /\ [][Next]_vars

\* The preemptive scheduler runs a task that stays ready: the record task
\* at the highest priority, the control task whenever the record task is
\* blocked.  Every blocking call of the two tasks has a finite timeout.
FairSpec ==
    /\ Spec
    /\ WF_vars(CtlReceive \/ CtlReceiveTimeout \/ CtlStopDone \/ CtlStopTimeout
                   \/ CtlPlaySent \/ CtlPlaySendTimeout \/ CtlAutoStop)
    /\ WF_vars(RecStart \/ RecPoll \/ RecSendUnblocked \/ RecSendTimeout)

(***************************************************************************)
(* Properties of the control, capture and storage-write side (Spec).       *)
(***************************************************************************)
\* C1: the Capture Source is never active while file_write_task still has
\* the data of a received Completed-Capture Record to write out of
\* recorded_data (its FS_Write of the PCM data has not returned).
C1_NoCaptureWhileWriting ==
    ~(pdm_active /\ fw_pc = "write_data" /\ fw_msg.buffer_ptr = "recorded_data")

\* C2: while the Capture Source is active the write index never exceeds the
\* capacity NUM_CHANNELS*BUFFER_SIZE, and the record of a session that ran
\* to buffer-full (no stop) has sample_count <= capacity.
C2_WithinCapacity ==
    /\ pdm_active => audio_data_ptr <= Capacity
    /\ session_end = "full" => record_msg.sample_count <= Capacity

\* C3: no session puts more than one record on audio_record_queue, and a
\* session that ended by buffer-full has put exactly one there by the time
\* the record task waits for the next session.
C3_ExactlyOneRecord ==
    /\ session_records <= 1
    /\ (sessions > 0 /\ rec_pc = "wait_event" /\ session_end = "full")
         => session_records = 1

\* C8: a file reported saved for a record of n samples declares sample rate
\* 16000, 2 channels, 16 bits and 2n payload bytes, holds exactly 2n payload
\* bytes, and is 44 + 2n bytes long.
C8_SavedFileMatchesHeader ==
    (fw_report = "saved" /\ store[fw_filename].present) =>
        LET f == store[fw_filename]
            n == fw_msg.sample_count
        IN  /\ f.header.sample_rate = 16000
            /\ f.header.num_channels = 2
            /\ f.header.bits_per_sample = 16
            /\ f.header.data_bytes = 2 * n
            /\ f.payload = f.header.data_bytes
            /\ WAV_HEADER_SIZE + f.payload = 44 + 2 * n

\* C9: the step in which the control task processes a play command while
\* recording_active holds leaves the event flags, recording_active and
\* file_read_queue unchanged.
C9_PlayWhileRecordingRejected ==
    [][(/\ ctl_pc = "receive"
        /\ audio_cmd_queue # <<>>
        /\ Head(audio_cmd_queue).cmd = CMD_PLAY_FILE
        /\ recording_active
        /\ CtlReceive)
       => UNCHANGED <<events, recording_active, file_read_queue>>]_vars

\* C10: the step in which the control task processes a stop-record command
\* while not recording returns at once (no wait for the capture-completed
\* signal) and changes neither the event flags nor recording_active nor
\* audio_record_queue nor file_read_queue nor the Capture Source nor the
\* store; only the command itself leaves audio_cmd_queue.
C10_StopWhileIdleRejected ==
    [][(/\ ctl_pc = "receive"
        /\ audio_cmd_queue # <<>>
        /\ Head(audio_cmd_queue).cmd = CMD_STOP_RECORD
        /\ ~recording_active
        /\ CtlReceive)
       => /\ ctl_pc' = "autostop"
          /\ audio_cmd_queue' = Tail(audio_cmd_queue)
          /\ UNCHANGED <<events, recording_active, audio_record_queue,
                         file_read_queue, pdmVars, store>>]_vars

\* C10 witness: a stop-record command has been processed before any
\* recording was ever started
C10_Witness ==
    /\ cmd_msg.cmd = CMD_STOP_RECORD
    /\ ctl_pc = "autostop"
    /\ sessions = 0
    /\ ~recording_active

\* the state a completed stop-record leaves behind
AfterStopRecord ==
    /\ ~recording_active
    /\ EVENT_IDLE \in events
    /\ EVENT_RECORDING \notin events
    /\ EVENT_RECORDING_DONE \notin events

\* C17: a stop-record command taken off the queue while recording_active
\* clears EVENT_RECORDING and enters the wait for EVENT_RECORDING_DONE; the
\* wait always ends, by the signal or by its timeout, and in both cases the
\* handler returns with recording_active false, EVENT_RECORDING and
\* EVENT_RECORDING_DONE clear and EVENT_IDLE set.
C17_StopRecordReturnsToIdle ==
    /\ [][((/\ CtlReceive
            /\ Head(audio_cmd_queue).cmd = CMD_STOP_RECORD
            /\ recording_active)
              => (/\ ctl_pc' = "stop_wait"
                  /\ EVENT_RECORDING \notin events'
                  /\ ~recording_active'))
          /\ ((ctl_pc = "stop_wait" /\ ctl_pc' # "stop_wait")
              => (/\ ctl_pc' = "autostop"
                  /\ AfterStopRecord'))]_vars
    /\ (ctl_pc = "stop_wait") ~> (ctl_pc = "autostop" /\ AfterStopRecord)

C17_Witness ==
    /\ ctl_pc = "autostop"
    /\ cmd_msg.cmd = CMD_STOP_RECORD
    /\ sessions = 1
    /\ session_end = "stop"
    /\ cmds_issued = 2
    /\ AfterStopRecord

\* audio_record_task has stopped the capture on a full buffer while the
\* control task still has the recording as active
BufferFullReported ==
    /\ session_end = "full"
    /\ rec_pc \in {"send_blocked", "wait_event"}
    /\ EVENT_RECORDING \notin events
    /\ recording_active

\* the shell sends no further command and none is being handled
NoCommand ==
    /\ audio_cmd_queue = <<>>
    /\ cmds_issued = MaxCommands
    /\ ctl_pc \in {"receive", "autostop"}

\* C18: when audio_record_task reports a full buffer while recording, the
\* control task, with no command, eventually is in the state a stop-record
\* leaves (recording_active false, EVENT_RECORDING and EVENT_RECORDING_DONE
\* clear, EVENT_IDLE set); its auto-stop check produces that state in one
\* step, and a start-record taken in that state is accepted.
C18_AutoStopActsAsStopRecord ==
    /\ [][((/\ CtlAutoStop
            /\ session_end = "full"
            /\ recording_active
            /\ EVENT_RECORDING_DONE \in events)
              => AfterStopRecord')
          /\ ((/\ CtlReceive
               /\ Head(audio_cmd_queue).cmd = CMD_START_RECORD
               /\ AfterStopRecord)
              => (/\ recording_active'
                  /\ EVENT_RECORDING \in events'
                  /\ EVENT_IDLE \notin events'))]_vars
    /\ (BufferFullReported /\ NoCommand) ~> AfterStopRecord

C18_Witness ==
    /\ AfterStopRecord
    /\ session_end = "full"
    /\ sessions = 1
    /\ cmds_issued = 1
    /\ ctl_pc = "receive"


(***************************************************************************)
(* Playback: constants, stored files, the Sink's interrupt handler.        *)
(***************************************************************************)
\* Capacity of pcm_playback_queue (created outside the available sources)
PcmQueueLen == 1
\* Play requests handed to the playback side in one run
MaxPlays == 2
\* Stereo sample pairs of the short chunk that ends some of the stored files
TailPairs == 64
\* Interrupts followed after the Sink has read past a whole chunk buffer
MaxSinkOverrun == 1

PCM_CHUNK_SIZE == 4096
PLAYBACK_CHUNK_SIZE == 4096
PLAYBACK_QUEUE_LENGTH == 2
I2S_HW_FIFO_SIZE == 128
HW_FIFO_HALF_SIZE == I2S_HW_FIFO_SIZE \div 2

TailSamples == 2 * TailPairs

\* a stored WAV file whose header declares `declared` bytes of PCM data and
\* whose payload holds `held` bytes
WavFile(declared, held, format) ==
    [present |-> TRUE,
     header  |-> [wav_header_init(0) EXCEPT !.data_bytes = declared,
                                             !.wav_size = 36 + declared,
                                             !.audio_format = format],
     payload |-> held]

\* The files on the card when a playback run starts.  Every payload holds
\* whole stereo frames, so the sample counts handed to the Sink are even.
PlayLibrary ==
    [n \in StoreNames |->
        CASE n = AudioName(1) -> WavFile(2 * TailSamples, 2 * TailSamples, 1)
          [] n = AudioName(2) -> WavFile(4 * PCM_CHUNK_SIZE, 4 * PCM_CHUNK_SIZE, 1)
          [] n = AudioName(3) -> WavFile(4 * PCM_CHUNK_SIZE + 2 * TailSamples,
                                         4 * PCM_CHUNK_SIZE + 2 * TailSamples, 1)
          [] n = AudioName(4) -> WavFile(6 * PCM_CHUNK_SIZE,
                                         2 * PCM_CHUNK_SIZE + 2 * TailSamples, 1)
          [] n = AudioName(5) -> WavFile(4 * PCM_CHUNK_SIZE, 4 * PCM_CHUNK_SIZE, 3)
          [] OTHER -> NoFile]

PlayNames == {AudioName(n) : n \in 1..LibraryFiles} \cup {MissingName}

Min(a, b) == IF a < b THEN a ELSE b

Max(a, b) == IF a > b THEN a ELSE b

\* FS_Read of `bytes` bytes at position pos of file f: the bytes obtained
\* (none when the file ends at or before pos)
FS_Read(f, pos, bytes) == Max(0, Min(bytes, f.payload - pos))

\* the checks both header parsers make after reading WAV_HEADER_SIZE bytes
HeaderAccepted(f) ==
    /\ f.header # NoHeader
    /\ f.header.riff_header = "RIFF"
    /\ f.header.wave_header = "WAVE"
    /\ f.header.audio_format = 1
    /\ f.header.num_channels = WAV_NUM_CHANNELS
    /\ f.header.bits_per_sample = WAV_BITS_PER_SAMPLE

\* A uint32_t is held as its 32-bit pattern read as a signed number (the
\* integers of the checker have 32 bits): a value of 2^31 or more stands as
\* value - 2^32, so 1 - 2 is the pattern -1, i.e. 4294967295.  The unsigned
\* test "x > 0" is then "x # 0".
UGt0(x) == x # 0

\* the for loop of i2s_tx_interrupt_handler: i passes left, each writing one
\* stereo pair while samples remain; "remaining -= 2" is unsigned
\* arithmetic on playback_samples_remaining and wraps below zero.
RECURSIVE TxLoop(_, _, _)
TxLoop(i, ptr, remaining) ==
    IF i = 0 THEN <<ptr, remaining>>
    ELSE IF UGt0(remaining)
         THEN TxLoop(i - 1, [ptr EXCEPT !.off = @ + 2], remaining - 2)
         ELSE TxLoop(i - 1, ptr, remaining)

\* i2s_tx_interrupt_handler, TX FIFO trigger, playback active
i2s_tx_interrupt_handler ==
    LET r == TxLoop(HW_FIFO_HALF_SIZE \div 2, playback_buffer_ptr,
                    playback_samples_remaining)
    IN  IF r[2] = 0
        THEN /\ playback_active' = FALSE
             /\ playback_buffer_ptr' = NoPtr
             /\ playback_samples_remaining' = 0
        ELSE /\ playback_buffer_ptr' = r[1]
             /\ playback_samples_remaining' = r[2]
             /\ UNCHANGED playback_active

\* The interrupt fires while the transmitter is activated; with no active
\* playback the handler writes zeros and changes nothing.
I2sInterrupt ==
    /\ i2s_tx_active
    /\ playback_active
    /\ playback_buffer_ptr # NoPtr
    /\ UGt0(playback_samples_remaining)
    /\ playback_buffer_ptr.off < PCM_CHUNK_SIZE + MaxSinkOverrun * HW_FIFO_HALF_SIZE
    /\ i2s_tx_interrupt_handler
    /\ UNCHANGED <<fs_open_files, coreVars, file_read_queue, store, i2s_tx_active, plays_issued,
                   readVars, feedVars, singleVars>>


(***************************************************************************)
(* Two-task playback: file_read_task (Reader) and playback_task (Feeder).  *)
(* Both tasks have priority 3, so neither runs while the record task is    *)
(* ready.                                                                  *)
(***************************************************************************)
\* the control task's xQueueSend of a file name to file_read_queue
PlaySend ==
    /\ plays_issued < MaxPlays
    /\ Len(file_read_queue) < FileReadQueueLen
    /\ \E f \in PlayNames :
         file_read_queue' = Append(file_read_queue, [filename |-> f])
    /\ plays_issued' = plays_issued + 1
    /\ UNCHANGED <<fs_open_files, coreVars, store, sinkVars, readVars, feedVars, singleVars>>

\* parse_wav_header: total samples, both channels counted
parse_wav_header(f) == f.header.data_bytes \div 2

\* current_buffer = using_ping ? read_ping_buffer : read_pong_buffer
SelectBuffer(ping) == IF ping THEN "read_ping_buffer" ELSE "read_pong_buffer"

\* the ping-pong swap left out: the same buffer is used again
KeepBuffer(ping) == ping

\* using_ping = !using_ping
SwapBuffer(ping) == ~ping

\* the last-chunk test with < in place of <=
IsLastChunkStrict(remaining, read) == remaining < read

\* pcm_msg.is_last_chunk = (samples_remaining <= samples_read)
IsLastChunk(remaining, read) == remaining <= read

\* the open failure handled as if the file had been opened: the streaming
\* loop is entered
FrRejectedStreams ==
    /\ fr_session' = "running"
    /\ fr_pc' = "select"
    /\ samples_remaining' = PCM_CHUNK_SIZE
    /\ using_ping' = TRUE
    /\ fr_pos' = 0

\* FS_FOpen returned NULL, or parse_wav_header refused the header (the file
\* is closed): the error is printed and the task goes back to its queue
FrRejected ==
    /\ fr_session' = "rejected"
    /\ UNCHANGED <<fr_pc, samples_remaining, using_ping, fr_pos>>

\* xQueueReceive returned a file name: FS_FOpen, parse_wav_header, and the
\* loop test when the file declares no samples
FrReceive ==
    /\ fr_pc = "receive"
    /\ ~RecordTaskReady
    /\ file_read_queue # <<>>
    /\ fr_msg' = Head(file_read_queue)
    /\ file_read_queue' = Tail(file_read_queue)
    /\ delivered' = <<>>
    /\ LET f == store[Head(file_read_queue).filename] IN
       IF f.present /\ HeaderAccepted(f)
       THEN /\ samples_remaining' = parse_wav_header(f)
            /\ using_ping' = TRUE
            /\ fr_pos' = 0
            /\ IF parse_wav_header(f) > 0
               THEN /\ fr_pc' = "select" /\ fr_session' = "running"
                    /\ fs_open_files' = fs_open_files + 1
               ELSE /\ fr_pc' = "receive" /\ fr_session' = "complete"
                    /\ UNCHANGED fs_open_files
       ELSE FrRejected /\ UNCHANGED fs_open_files
    /\ UNCHANGED <<coreVars, store, sinkVars, plays_issued, pcm_playback_queue,
                   current_buffer, samples_read, feedVars, singleVars>>

\* the buffer is selected and FS_Read starts to fill it
FrReadBegin ==
    /\ fr_pc = "select"
    /\ ~RecordTaskReady
    /\ current_buffer' = SelectBuffer(using_ping)
    /\ fr_pc' = "reading"
    /\ UNCHANGED <<fs_open_files, coreVars, file_read_queue, store, sinkVars, plays_issued,
                   pcm_playback_queue, fr_msg, samples_remaining, using_ping,
                   samples_read, fr_pos, delivered, fr_session, feedVars, singleVars>>

\* FS_Read returned; a read of 0 samples leaves the loop and closes the file
FrReadEnd ==
    /\ fr_pc = "reading"
    /\ ~RecordTaskReady
    /\ LET chunk_samples == Min(samples_remaining, PCM_CHUNK_SIZE)
           bytes == FS_Read(store[fr_msg.filename], fr_pos, chunk_samples * 2)
       IN  /\ samples_read' = bytes \div 2
           /\ fr_pos' = fr_pos + bytes
           /\ IF bytes \div 2 = 0
              THEN /\ fr_pc' = "receive" /\ fr_session' = "aborted"
                   /\ fs_open_files' = fs_open_files - 1
              ELSE /\ fr_pc' = "send"
                   /\ UNCHANGED <<fr_session, fs_open_files>>
    /\ UNCHANGED <<coreVars, file_read_queue, store, sinkVars, plays_issued,
                   pcm_playback_queue, fr_msg, samples_remaining, using_ping,
                   current_buffer, delivered, feedVars, singleVars>>

\* xQueueSend of the chunk succeeded: count down, swap buffers, loop test
FrSend ==
    /\ fr_pc = "send"
    /\ ~RecordTaskReady
    /\ Len(pcm_playback_queue) < PcmQueueLen
    /\ LET last == IsLastChunk(samples_remaining, samples_read) IN
       /\ pcm_playback_queue' = Append(pcm_playback_queue,
              [buffer_ptr |-> current_buffer, sample_count |-> samples_read,
               is_last_chunk |-> last])
       /\ delivered' = Append(delivered,
              [buffer_ptr |-> current_buffer, sample_count |-> samples_read,
               is_last_chunk |-> last, offset |-> fr_pos - 2 * samples_read])
    /\ samples_remaining' = samples_remaining - samples_read
    /\ using_ping' = SwapBuffer(using_ping)
    /\ IF samples_remaining - samples_read > 0
       THEN /\ fr_pc' = "select"
            /\ UNCHANGED <<fr_session, fs_open_files>>
       ELSE /\ fr_pc' = "receive" /\ fr_session' = "complete"
            /\ fs_open_files' = fs_open_files - 1
    /\ UNCHANGED <<coreVars, file_read_queue, store, sinkVars, plays_issued, fr_msg,
                   current_buffer, samples_read, fr_pos, feedVars, singleVars>>

FrSendTimeoutLeavesOpen ==
    /\ fr_pc = "send"
    /\ ~RecordTaskReady
    /\ Len(pcm_playback_queue) >= PcmQueueLen
    /\ fr_pc' = "receive"
    /\ fr_session' = "aborted"
    /\ UNCHANGED <<fs_open_files, coreVars, file_read_queue, store, sinkVars, plays_issued,
                   pcm_playback_queue, fr_msg, samples_remaining, using_ping,
                   current_buffer, samples_read, fr_pos, delivered, feedVars,
                   singleVars>>

\* xQueueSend failed after 500 ms on the full queue: the loop is left and
\* the file closed
FrSendTimeout ==
    /\ fr_pc = "send"
    /\ ~RecordTaskReady
    /\ Len(pcm_playback_queue) >= PcmQueueLen
    /\ fr_pc' = "receive"
    /\ fr_session' = "aborted"
    /\ fs_open_files' = fs_open_files - 1
    /\ UNCHANGED <<coreVars, file_read_queue, store, sinkVars, plays_issued,
                   pcm_playback_queue, fr_msg, samples_remaining, using_ping,
                   current_buffer, samples_read, fr_pos, delivered, feedVars,
                   singleVars>>

\* playback_task: a chunk is received and handed to the interrupt handler
PbReceive ==
    /\ pb_pc = "receive"
    /\ ~RecordTaskReady
    /\ pcm_playback_queue # <<>>
    /\ pcm_msg' = Head(pcm_playback_queue)
    /\ pcm_playback_queue' = Tail(pcm_playback_queue)
    /\ playback_buffer_ptr' = [buf |-> Head(pcm_playback_queue).buffer_ptr, off |-> 0]
    /\ playback_samples_remaining' = Head(pcm_playback_queue).sample_count
    /\ playback_active' = TRUE
    /\ pb_pc' = "wait"
    /\ UNCHANGED <<fs_open_files, coreVars, file_read_queue, store, i2s_tx_active, plays_issued,
                   fr_pc, fr_msg, samples_remaining, using_ping, current_buffer,
                   samples_read, fr_pos, delivered, fr_session, singleVars>>

\* playback_task: the wait loop ended; after the last chunk playback stops
PbChunkDone ==
    /\ pb_pc = "wait"
    /\ ~RecordTaskReady
    /\ ~(UGt0(playback_samples_remaining) /\ playback_active)
    /\ IF pcm_msg.is_last_chunk
       THEN /\ playback_active' = FALSE
            /\ playback_buffer_ptr' = NoPtr
       ELSE UNCHANGED <<playback_active, playback_buffer_ptr>>
    /\ pb_pc' = "receive"
    /\ UNCHANGED <<fs_open_files, coreVars, file_read_queue, store, playback_samples_remaining,
                   i2s_tx_active, plays_issued, readVars, pcm_msg, singleVars>>

\* The card holds the stored files; the transmitter is taken to be running
\* (the runs in which it is not are those in which I2sInterrupt never fires).
InitPlay ==
    /\ InitCore
    /\ InitPlayback
    /\ InitOffline
    /\ i2s_tx_active = TRUE
    /\ store = PlayLibrary

NextPlay ==
    \/ PlaySend
    \/ FrReceive
    \/ FrReadBegin
    \/ FrReadEnd
    \/ FrSend
    \/ FrSendTimeout
    \/ PbReceive
    \/ PbChunkDone
    \/ I2sInterrupt

SpecPlay == InitPlay /\ [][NextPlay]_vars


(***************************************************************************)
(* Properties of the two-task playback (SpecPlay).                         *)
(***************************************************************************)
\* C5: file_read_task is never inside FS_Read into the chunk buffer that
\* the Sink is draining (playback_buffer_ptr inside it with
\* playback_samples_remaining > 0).
C5_ReaderAvoidsDrainingBuffer ==
    ~(/\ fr_pc = "reading"
      /\ playback_buffer_ptr.buf = current_buffer
      /\ UGt0(playback_samples_remaining))

\* C6: the chunks a read session has delivered to pcm_playback_queue use
\* read_ping_buffer, read_pong_buffer, read_ping_buffer, ... in turn, the
\* first one read_ping_buffer, and cover the file's PCM data in order from
\* its start, each chunk beginning where the one before it ended.
C6_DeliveredAlternateInOrder ==
    \A i \in 1..Len(delivered) :
        /\ delivered[i].buffer_ptr =
               IF i % 2 = 1 THEN "read_ping_buffer" ELSE "read_pong_buffer"
        /\ delivered[i].sample_count > 0
        /\ delivered[i].offset =
               IF i = 1 THEN 0
               ELSE delivered[i - 1].offset + 2 * delivered[i - 1].sample_count

\* C6 witness: a session has delivered three chunks
C6_Witness == Len(delivered) >= 3 /\ fr_session \in {"running", "complete"}

\* C7: no chunk but the most recently delivered one carries is_last_chunk,
\* and in a session that read its file to the end the most recently
\* delivered chunk does carry it (so nothing follows the last chunk).
C7_LastChunkOnlyAtEnd ==
    /\ \A i \in 1..(Len(delivered) - 1) : ~delivered[i].is_last_chunk
    /\ (fr_session = "complete" /\ delivered # <<>>)
           => delivered[Len(delivered)].is_last_chunk

\* C7 witness: a session of three chunks has read its file to the end
C7_Witness == fr_session = "complete" /\ Len(delivered) = 3

\* C14: the step in which file_read_task takes a play request for a file
\* that is not in the Byte Store reports the failure and goes back to
\* waiting for the next request: it starts no read into a chunk buffer,
\* selects no buffer, sends no chunk to the Feeder, and leaves the Sink's
\* cursor, the Feeder and the store as they were.
C14_MissingFileTouchesNothing ==
    [][(/\ fr_pc = "receive"
        /\ file_read_queue # <<>>
        /\ ~store[Head(file_read_queue).filename].present
        /\ FrReceive)
       => /\ fr_pc' = "receive"
          /\ fr_session' = "rejected"
          /\ UNCHANGED <<current_buffer, samples_read, fr_pos, pcm_playback_queue,
                         sinkVars, feedVars, store>>]_vars

\* C14 witness: a play request for a file that does not exist has been
\* taken and refused
C14_Witness ==
    /\ fr_msg.filename = MissingName
    /\ ~store[MissingName].present
    /\ fr_session = "rejected"
    /\ fr_pc = "receive"


(***************************************************************************)
(* Single-task playback: playback_task of playback_task.c.                 *)
(***************************************************************************)
\* a file name is sent to playback_queue
PsRequest ==
    /\ plays_issued < MaxPlays
    /\ Len(playback_queue) < PLAYBACK_QUEUE_LENGTH
    /\ \E f \in PlayNames :
         playback_queue' = Append(playback_queue, [filename |-> f])
    /\ plays_issued' = plays_issued + 1
    /\ UNCHANGED <<fs_open_files, coreVars, file_read_queue, store, sinkVars, readVars, feedVars,
                   ps_pc, ps_msg, total_samples, ps_samples_read, ps_using_ping,
                   ps_pos, ps_session>>

\* playback_parse_wav_header: total samples per channel
playback_parse_wav_header(f) ==
    f.header.data_bytes \div (WAV_NUM_CHANNELS * (WAV_BITS_PER_SAMPLE \div 8))

\* the buffer the next chunk is read into (next_buffer)
NextBuffer(ping) == IF ping THEN "playback_pong_buffer" ELSE "playback_ping_buffer"

\* xQueueReceive returned a file name: open, parse, first chunk into the
\* ping buffer, playback set up, I2S enabled and activated
PsReceive ==
    /\ ps_pc = "receive"
    /\ playback_queue # <<>>
    /\ ps_msg' = Head(playback_queue)
    /\ playback_queue' = Tail(playback_queue)
    /\ LET f == store[Head(playback_queue).filename] IN
       IF f.present /\ HeaderAccepted(f)
       THEN LET total == playback_parse_wav_header(f)
                bytes == FS_Read(f, 0, Min(total, PLAYBACK_CHUNK_SIZE) * 2)
            IN  /\ ps_pos' = bytes
                /\ ps_samples_read' = bytes \div 2
                /\ ps_using_ping' = TRUE
                /\ IF bytes \div 2 = 0
                   THEN /\ total_samples' = total
                        /\ ps_session' = "rejected"
                        /\ UNCHANGED <<ps_pc, sinkVars, fs_open_files>>
                   ELSE /\ playback_buffer_ptr' = [buf |-> "playback_ping_buffer", off |-> 0]
                        /\ playback_samples_remaining' = bytes \div 2
                        /\ playback_active' = TRUE
                        /\ i2s_tx_active' = TRUE
                        /\ total_samples' = total - bytes \div 2
                        /\ ps_session' = "running"
                        /\ ps_pc' = "loop"
                        /\ fs_open_files' = fs_open_files + 1
       ELSE /\ ps_session' = "rejected"
            /\ UNCHANGED <<ps_pc, total_samples, ps_samples_read, ps_using_ping,
                           ps_pos, sinkVars, fs_open_files>>
    /\ UNCHANGED <<coreVars, file_read_queue, store, plays_issued, readVars, feedVars>>

\* the test of the streaming loop and the FS_Read of the next chunk into the
\* inactive buffer
PsLoopRead ==
    /\ ps_pc = "loop"
    /\ IF total_samples > 0 /\ playback_active
       THEN LET bytes == FS_Read(store[ps_msg.filename], ps_pos,
                                 Min(total_samples, PLAYBACK_CHUNK_SIZE) * 2)
            IN  /\ ps_samples_read' = bytes \div 2
                /\ ps_pos' = ps_pos + bytes
                /\ ps_pc' = IF bytes \div 2 = 0 THEN "final_wait" ELSE "swap_wait"
       ELSE /\ ps_pc' = "final_wait"
            /\ UNCHANGED <<ps_samples_read, ps_pos>>
    /\ UNCHANGED <<fs_open_files, coreVars, file_read_queue, store, sinkVars, plays_issued, readVars,
                   feedVars, playback_queue, ps_msg, total_samples, ps_using_ping,
                   ps_session>>

\* the current buffer is finished: the next buffer is handed to the
\* interrupt handler and the ping-pong roles are swapped
PsSwap ==
    /\ ps_pc = "swap_wait"
    /\ playback_samples_remaining = 0
    /\ playback_buffer_ptr' = [buf |-> NextBuffer(ps_using_ping), off |-> 0]
    /\ playback_samples_remaining' = ps_samples_read
    /\ ps_using_ping' = ~ps_using_ping
    /\ total_samples' = total_samples - ps_samples_read
    /\ ps_pc' = "loop"
    /\ UNCHANGED <<fs_open_files, coreVars, file_read_queue, store, playback_active, i2s_tx_active,
                   plays_issued, readVars, feedVars, playback_queue, ps_msg,
                   ps_samples_read, ps_pos, ps_session>>

\* the wait for the current buffer ran through its 1000 delays of 10 ms
PsSwapTimeout ==
    /\ ps_pc = "swap_wait"
    /\ UGt0(playback_samples_remaining)
    /\ ps_pc' = "final_wait"
    /\ UNCHANGED <<fs_open_files, coreVars, file_read_queue, store, sinkVars, plays_issued, readVars,
                   feedVars, playback_queue, ps_msg, total_samples, ps_samples_read,
                   ps_using_ping, ps_pos, ps_session>>

\* the final buffer is finished: I2S stopped, file closed
PsFinish ==
    /\ ps_pc = "final_wait"
    /\ playback_samples_remaining = 0
    /\ playback_active' = FALSE
    /\ i2s_tx_active' = FALSE
    /\ ps_session' = "done"
    /\ ps_pc' = "receive"
    /\ fs_open_files' = fs_open_files - 1
    /\ UNCHANGED <<coreVars, file_read_queue, store, playback_buffer_ptr,
                   playback_samples_remaining, plays_issued, readVars, feedVars,
                   playback_queue, ps_msg, total_samples, ps_samples_read,
                   ps_using_ping, ps_pos>>

InitSingle ==
    /\ InitCore
    /\ InitPlayback
    /\ InitOffline
    /\ i2s_tx_active = FALSE
    /\ store = PlayLibrary

NextSingle ==
    \/ PsRequest
    \/ PsReceive
    \/ PsLoopRead
    \/ PsSwap
    \/ PsSwapTimeout
    \/ PsFinish
    \/ I2sInterrupt

SpecSingle == InitSingle /\ [][NextSingle]_vars

\* The task is scheduled whenever it can take a step, and the Sink's
\* interrupt keeps firing while the transmitter is activated; the 10 s
\* timeout of the buffer wait is not forced.
FairSingle ==
    /\ SpecSingle
    /\ WF_vars(PsReceive)
    /\ WF_vars(PsLoopRead)
    /\ WF_vars(PsSwap)
    /\ WF_vars(PsFinish)
    /\ WF_vars(I2sInterrupt)


(***************************************************************************)
(* Properties of the single-task playback (FairSingle).                    *)
(***************************************************************************)
\* a stored file with a well-formed header, all the PCM data its header
\* declares, and more of it than one chunk buffer holds
ValidMultiChunk(f) ==
    /\ f.present
    /\ HeaderAccepted(f)
    /\ f.payload >= f.header.data_bytes
    /\ f.header.data_bytes > PLAYBACK_CHUNK_SIZE * 2

\* C4: a playback session of the single-task variant on a valid file of
\* more than one chunk never hangs: until it has ended (I2S stopped, file
\* closed, task back at its queue) the task can take its next step or the
\* Sink's interrupt handler can drain the installed buffer.  The steps of a
\* session are bounded by the length of the file, so under the fairness of
\* FairSingle this is what makes every such session terminate.
C4_SessionNeverStuck ==
    (ps_session = "running" /\ ValidMultiChunk(store[ps_msg.filename]))
        => ENABLED (PsLoopRead \/ PsSwap \/ PsFinish \/ I2sInterrupt)


(***************************************************************************)
(* The whole system of the two-task build: command shell, control task,    *)
(* capture pipeline, storage-write pipeline, Reader, Feeder and both       *)
(* interrupt handlers, on a card that holds the stored files.              *)
(***************************************************************************)
InitSystem ==
    /\ InitCore
    /\ InitPlayback
    /\ InitOffline
    /\ i2s_tx_active = TRUE
    /\ store = PlayLibrary

NextSystem ==
    \/ ShellSend
    \/ CtlReceive
    \/ CtlReceiveTimeout
    \/ CtlStopDone
    \/ CtlStopTimeout
    \/ CtlPlaySent
    \/ CtlPlaySendTimeout
    \/ CtlAutoStop
    \/ PdmInterrupt
    \/ RecStart
    \/ RecPoll
    \/ RecSendUnblocked
    \/ RecSendTimeout
    \/ FwReceive
    \/ FwWriteHeader
    \/ FwWriteData
    \/ FrReceive
    \/ FrReadBegin
    \/ FrReadEnd
    \/ FrSend
    \/ FrSendTimeout
    \/ PbReceive
    \/ PbChunkDone
    \/ I2sInterrupt

SpecSystem == InitSystem /\ [][NextSystem]_vars

(***************************************************************************)
(* Properties of the whole system (SpecSystem).                            *)
(***************************************************************************)
\* a recording session is in progress
RecordingInProgress == EVENT_RECORDING \in events \/ pdm_active

\* a playback session is in progress: the Reader streams a file or the
\* Feeder holds an active chunk
PlaybackInProgress == fr_pc \in {"select", "reading", "send"} \/ playback_active

\* C11: no reachable state has a recording session in progress while a
\* playback session is in progress.
C11_NoConcurrentSessions == ~(RecordingInProgress /\ PlaybackInProgress)

\* every task waits for its next input, nothing is queued for any of them
\* and no recording is under way: only a new command makes the system move
SystemAtRest ==
    /\ ctl_pc = "receive"
    /\ audio_cmd_queue = <<>>
    /\ ~recording_active
    /\ rec_pc = "wait_event"
    /\ EVENT_RECORDING \notin events
    /\ audio_record_queue = <<>>
    /\ fw_pc = "receive"
    /\ file_read_queue = <<>>
    /\ fr_pc = "receive"
    /\ pcm_playback_queue = <<>>
    /\ pb_pc = "receive"
    /\ ~playback_active

\* C12: once a playback session has completed (the Reader delivered the
\* last chunk, the Sink drained it, the Feeder is back at its queue) and the
\* system has come to rest, EVENT_IDLE is set again.
C12_IdleAfterPlayback ==
    (SystemAtRest /\ fr_session = "complete" /\ pcm_msg.is_last_chunk)
        => EVENT_IDLE \in events

\* C13: once the system has come to rest after a playback failure (the file
\* could not be opened, its header was refused, a read returned no data, or
\* a chunk could not be delivered in time), EVENT_IDLE is set.
C13_IdleAfterPlaybackFailure ==
    (SystemAtRest /\ fr_session \in {"rejected", "aborted"})
        => EVENT_IDLE \in events


(***************************************************************************)
(* Container codec: the two encoders and the two decoders of the 44-byte   *)
(* header, applied to arguments and headers drawn from bounded sets.       *)
(***************************************************************************)
\* app_wav_save_from_buffer: the header it builds (WAV_HEADER_t has the
\* layout of wav_header_t; the fields are named as in wav_header_t)
app_wav_save_header(num_samples_per_channel, sample_rate_hz, num_channels, bits_per_sample) ==
    LET bytes_per_sample == bits_per_sample \div 8
        total          == num_samples_per_channel * num_channels
        subchunk2_size == total * bytes_per_sample
    IN  [riff_header     |-> "RIFF",
         wav_size        |-> 36 + subchunk2_size,
         wave_header     |-> "WAVE",
         fmt_header      |-> "fmt ",
         fmt_chunk_size  |-> 16,
         audio_format    |-> 1,
         num_channels    |-> num_channels,
         sample_rate     |-> sample_rate_hz,
         byte_rate       |-> sample_rate_hz * num_channels * bytes_per_sample,
         block_align     |-> num_channels * bytes_per_sample,
         bits_per_sample |-> bits_per_sample,
         data_header     |-> "data",
         data_bytes      |-> subchunk2_size]

\* the chain of checks of a header parser with the sample-rate check made
\* fatal like the others
parse_rc_rate_fatal(f) ==
    IF f.header = NoHeader THEN 0 - 1
    ELSE IF f.header.riff_header # "RIFF" THEN 0 - 1
    ELSE IF f.header.wave_header # "WAVE" THEN 0 - 1
    ELSE IF f.header.audio_format # 1 THEN 0 - 1
    ELSE IF f.header.sample_rate # WAV_SAMPLE_RATE THEN 0 - 1
    ELSE IF f.header.num_channels # WAV_NUM_CHANNELS THEN 0 - 1
    ELSE IF f.header.bits_per_sample # WAV_BITS_PER_SAMPLE THEN 0 - 1
    ELSE 0

\* parse_wav_header: its return value, check by check in the order of the
\* code (a file shorter than the header gives no header at all)
parse_wav_header_rc(f) ==
    IF f.header = NoHeader THEN 0 - 1
    ELSE IF f.header.riff_header # "RIFF" THEN 0 - 1
    ELSE IF f.header.wave_header # "WAVE" THEN 0 - 1
    ELSE IF f.header.audio_format # 1 THEN 0 - 1
    ELSE IF f.header.num_channels # WAV_NUM_CHANNELS THEN 0 - 1
    ELSE IF f.header.bits_per_sample # WAV_BITS_PER_SAMPLE THEN 0 - 1
    ELSE 0

\* parse_wav_header reaches its sample-rate check and prints the warning
parse_wav_header_warns(f) ==
    /\ f.header # NoHeader
    /\ f.header.riff_header = "RIFF"
    /\ f.header.wave_header = "WAVE"
    /\ f.header.audio_format = 1
    /\ f.header.sample_rate # WAV_SAMPLE_RATE

\* playback_parse_wav_header: its return value, check by check
playback_parse_wav_header_rc(f) ==
    IF f.header = NoHeader THEN 0 - 1
    ELSE IF f.header.riff_header # "RIFF" THEN 0 - 1
    ELSE IF f.header.wave_header # "WAVE" THEN 0 - 1
    ELSE IF f.header.audio_format # 1 THEN 0 - 1
    ELSE IF f.header.num_channels # WAV_NUM_CHANNELS THEN 0 - 1
    ELSE IF f.header.bits_per_sample # WAV_BITS_PER_SAMPLE THEN 0 - 1
    ELSE 0

\* playback_parse_wav_header reaches its sample-rate check and prints the
\* warning
playback_parse_wav_header_warns(f) ==
    /\ f.header # NoHeader
    /\ f.header.riff_header = "RIFF"
    /\ f.header.wave_header = "WAVE"
    /\ f.header.audio_format = 1
    /\ f.header.sample_rate # WAV_SAMPLE_RATE

\* arguments handed to an encoder
CodecArgs ==
    [total_samples : 0..MaxCodecSamples, sample_rate : {8000, WAV_SAMPLE_RATE},
     num_channels : {1, 2}, bits_per_sample : {8, 16}]

\* headers of files that come from elsewhere: each checked field right or
\* wrong, and the file too short to hold a header
ForeignHeaders(n) ==
    {[wav_header_init(n) EXCEPT !.riff_header = r, !.wave_header = w,
                                !.audio_format = a, !.sample_rate = sr,
                                !.num_channels = c, !.bits_per_sample = b] :
        r \in {"RIFF", "RIFX"}, w \in {"WAVE", "WAVX"}, a \in {1, 3},
        sr \in {8000, WAV_SAMPLE_RATE}, c \in {1, 2}, b \in {8, 16}}
    \cup {NoHeader}

\* the header under the decoders, as a stored file
CodecFile ==
    [present |-> TRUE, header |-> codec_header,
     payload |-> IF codec_header = NoHeader THEN 0 ELSE codec_header.data_bytes]

\* app_wav_save_from_buffer with its channel check left out
app_wav_save_checks_no_channels(mounted, num_channels, bits_per_sample) ==
    IF ~mounted THEN "not_mounted"
    ELSE IF bits_per_sample # 8 /\ bits_per_sample # 16 THEN "bad_bits"
    ELSE "ok"

\* app_wav_save_from_buffer: the input validation, in the order of the code
\* (the buffer and the name handed to it are never NULL here)
app_wav_save_checks(mounted, num_channels, bits_per_sample) ==
    IF ~mounted THEN "not_mounted"
    ELSE IF num_channels = 0 \/ num_channels > 8 THEN "bad_channels"
    ELSE IF bits_per_sample # 8 /\ bits_per_sample # 16 THEN "bad_bits"
    ELSE "ok"

\* file_write_task's encoder: the format is fixed, only the count is given
CodecEncodeInit ==
    /\ codec_pc = "encode"
    /\ codec_args.sample_rate = WAV_SAMPLE_RATE
    /\ codec_args.num_channels = WAV_NUM_CHANNELS
    /\ codec_args.bits_per_sample = WAV_BITS_PER_SAMPLE
    /\ codec_header' = wav_header_init(codec_args.total_samples)
    /\ codec_from' = "wav_header_init"
    /\ codec_pc' = "decode"
    /\ UNCHANGED <<fs_open_files, taskVars, standaloneVars, emfileVars, codec_args, codec_result>>

\* the encoder of app_wav_save_from_buffer, past its input validation
CodecEncodeSave ==
    /\ codec_pc = "encode"
    /\ app_wav_save_checks(TRUE, codec_args.num_channels,
                           codec_args.bits_per_sample) = "ok"
    /\ codec_header' = app_wav_save_header(codec_args.total_samples,
                           codec_args.sample_rate, codec_args.num_channels,
                           codec_args.bits_per_sample)
    /\ codec_from' = "app_wav_save_from_buffer"
    /\ codec_pc' = "decode"
    /\ UNCHANGED <<fs_open_files, taskVars, standaloneVars, emfileVars, codec_args, codec_result>>

\* a file that was not written by this program is put under the decoders
CodecForeign ==
    /\ codec_pc = "encode"
    /\ \E h \in ForeignHeaders(codec_args.total_samples) : codec_header' = h
    /\ codec_from' = "foreign"
    /\ codec_pc' = "decode"
    /\ UNCHANGED <<fs_open_files, taskVars, standaloneVars, emfileVars, codec_args, codec_result>>

\* parse_wav_header is applied; *total_samples is written on success only
CodecDecodeRead ==
    /\ codec_pc = "decode"
    /\ codec_result' =
           [parser        |-> "parse_wav_header",
            rc            |-> parse_wav_header_rc(CodecFile),
            total_samples |-> IF parse_wav_header_rc(CodecFile) = 0
                              THEN parse_wav_header(CodecFile) ELSE 0,
            warned        |-> parse_wav_header_warns(CodecFile)]
    /\ codec_pc' = "done"
    /\ UNCHANGED <<fs_open_files, taskVars, standaloneVars, emfileVars, codec_args, codec_header, codec_from>>

\* playback_parse_wav_header is applied
CodecDecodePlay ==
    /\ codec_pc = "decode"
    /\ codec_result' =
           [parser        |-> "playback_parse_wav_header",
            rc            |-> playback_parse_wav_header_rc(CodecFile),
            total_samples |-> IF playback_parse_wav_header_rc(CodecFile) = 0
                              THEN playback_parse_wav_header(CodecFile) ELSE 0,
            warned        |-> playback_parse_wav_header_warns(CodecFile)]
    /\ codec_pc' = "done"
    /\ UNCHANGED <<fs_open_files, taskVars, standaloneVars, emfileVars, codec_args, codec_header, codec_from>>

InitCodec ==
    /\ InitCore
    /\ InitPlayback
    /\ i2s_tx_active = FALSE
    /\ store = [n \in StoreNames |-> NoFile]
    /\ InitEmfile
    /\ codec_pc = "encode"
    /\ codec_args \in CodecArgs
    /\ codec_header = NoHeader
    /\ codec_from = "none"
    /\ codec_result = NoResult

NextCodec ==
    \/ CodecEncodeInit
    \/ CodecEncodeSave
    \/ CodecForeign
    \/ CodecDecodeRead
    \/ CodecDecodePlay

SpecCodec == InitCodec /\ [][NextCodec]_vars

(***************************************************************************)
(* Properties of the codec (SpecCodec).                                    *)
(***************************************************************************)
\* C15: decoding a header that one of the encoders built recovers the
\* sample count that was given to the encoder, and the header carries the
\* format fields that were given.
C15_HeaderRoundTrip ==
    (codec_pc = "done" /\ codec_from \in {"wav_header_init", "app_wav_save_from_buffer"})
        => /\ codec_result.rc = 0
           /\ codec_result.total_samples = codec_args.total_samples
           /\ codec_header.sample_rate = codec_args.sample_rate
           /\ codec_header.num_channels = codec_args.num_channels
           /\ codec_header.bits_per_sample = codec_args.bits_per_sample

\* C19: both header parsers accept a header exactly when the RIFF tag, the
\* WAVE tag, audio_format 1, 2 channels and 16 bits all match, which is the
\* test on which the Reader and the single-task player reject a file; every
\* such mismatch gives -1 with no sample count yielded, while a sample rate
\* other than the expected one gives the warning and never a rejection.
C19_HeaderAcceptance ==
    codec_pc = "done"
        => /\ codec_result.rc \in {0, 0 - 1}
           /\ (codec_result.rc = 0) <=> HeaderAccepted(CodecFile)
           /\ codec_result.rc # 0 => codec_result.total_samples = 0
           /\ (/\ HeaderAccepted(CodecFile)
               /\ codec_header.sample_rate # WAV_SAMPLE_RATE)
                 => codec_result.rc = 0 /\ codec_result.warned
           /\ codec_result.warned => codec_header.sample_rate # WAV_SAMPLE_RATE

C19_Witness ==
    /\ codec_pc = "done"
    /\ codec_from = "foreign"
    /\ HeaderAccepted(CodecFile)
    /\ codec_header.sample_rate # WAV_SAMPLE_RATE
    /\ codec_result.rc = 0
    /\ codec_result.warned

----------------------------------------------------------------------------
\* Finding a free recording name on the card (emfile_sd.c)

FILENAME_BUFFER_SIZE == 32
max_retries == 10

\* the counters a search can start from with every probed name on the card
StartCounters == 0..(MaxRecFiles - max_retries + 1)

\* the cards the search can meet: any of the rec_XXXX.wav names present
Cards == [RecNames -> {NoFile, WavFile(0, 0, 1)}]

\* the name for the current counter; reading it does not change the counter
app_emfile_next_filename == RecName(sd_file_counter)

\* entry of app_emfile_find_available_filename: the buffer check
FindCall ==
    /\ find_pc = "idle"
    /\ \E buffer_size \in {FILENAME_BUFFER_SIZE - 1, FILENAME_BUFFER_SIZE} :
          find_pc' = IF buffer_size < FILENAME_BUFFER_SIZE
                     THEN "ret_invalid" ELSE "loop"
    /\ retry_count' = 0
    /\ find_start' = sd_file_counter
    /\ UNCHANGED <<taskVars, standaloneVars, codecVars, sd_card, emfile_mounted,
                   sd_file_counter, fs_open_files, out_filename, save_args,
                   save_result, remaining_samples, chunks_written>>

\* FS_FOpen(candidate, "rb") fails: the name is free and is copied out
FindProbeFree ==
    /\ find_pc = "loop"
    /\ retry_count < max_retries
    /\ ~sd_card[app_emfile_next_filename].present
    /\ out_filename' = app_emfile_next_filename
    /\ find_pc' = "ret_true"
    /\ UNCHANGED <<taskVars, standaloneVars, codecVars, sd_card, emfile_mounted,
                   sd_file_counter, fs_open_files, retry_count, save_args,
                   save_result, find_start, remaining_samples, chunks_written>>

\* FS_FOpen(candidate, "rb") succeeds: the name is taken
FindProbeOpen ==
    /\ find_pc = "loop"
    /\ retry_count < max_retries
    /\ sd_card[app_emfile_next_filename].present
    /\ fs_open_files' = fs_open_files + 1
    /\ find_pc' = "opened"
    /\ UNCHANGED <<taskVars, standaloneVars, codecVars, sd_card, emfile_mounted,
                   sd_file_counter, retry_count, out_filename, save_args,
                   save_result, find_start, remaining_samples, chunks_written>>

FindProbeCloseSameName ==
    /\ find_pc = "opened"
    /\ fs_open_files' = fs_open_files - 1
    /\ retry_count' = retry_count + 1
    /\ find_pc' = "loop"
    /\ UNCHANGED <<taskVars, standaloneVars, codecVars, sd_card, emfile_mounted,
                   sd_file_counter, out_filename, save_args, save_result,
                   find_start, remaining_samples, chunks_written>>

\* the collision branch: close the file, move to the next number
FindProbeClose ==
    /\ find_pc = "opened"
    /\ fs_open_files' = fs_open_files - 1
    /\ sd_file_counter' = sd_file_counter + 1
    /\ retry_count' = retry_count + 1
    /\ find_pc' = "loop"
    /\ UNCHANGED <<taskVars, standaloneVars, codecVars, sd_card, emfile_mounted,
                   out_filename, save_args, save_result, find_start, remaining_samples, chunks_written>>

\* the loop ends without a free name
FindGiveUp ==
    /\ find_pc = "loop"
    /\ ~(retry_count < max_retries)
    /\ find_pc' = "ret_exhausted"
    /\ UNCHANGED <<taskVars, standaloneVars, codecVars, sd_card, emfile_mounted,
                   sd_file_counter, fs_open_files, retry_count, out_filename,
                   save_args, save_result, find_start, remaining_samples, chunks_written>>

InitNaming ==
    /\ InitCore
    /\ InitPlayback
    /\ i2s_tx_active = FALSE
    /\ store = [n \in StoreNames |-> NoFile]
    /\ InitNoCodec
    /\ sd_card \in Cards
    /\ emfile_mounted = TRUE
    /\ sd_file_counter \in StartCounters
    /\ fs_open_files = 0
    /\ find_pc = "idle"
    /\ retry_count = 0
    /\ out_filename = NoName
    /\ save_args = NoSaveArgs
    /\ save_result = "none"
    /\ find_start = 0
    /\ remaining_samples = 0
    /\ chunks_written = <<>>
    /\ InitStandalone

NextNaming ==
    \/ FindCall
    \/ FindProbeFree
    \/ FindProbeOpen
    \/ FindProbeClose
    \/ FindGiveUp

SpecNaming == InitNaming /\ [][NextNaming]_vars

\* the names the search has passed over so far
Collided == {RecName(find_start + k) : k \in 0..(retry_count - 1)}

\* C16: the search probes at most 10 names and moves the counter on by one
\* for each name it finds taken; it returns the first free name at or after
\* the counter (rec_0009.wav after 9 collisions when rec_0000..rec_0008 exist
\* and the counter is 0), gives up after 10 taken names in a row, and in
\* either case has closed every file it opened.
C16_NamingRetry ==
    /\ retry_count <= max_retries
    /\ find_pc \in {"loop", "opened", "ret_true", "ret_exhausted"}
          => /\ sd_file_counter = find_start + retry_count
             /\ \A n \in Collided : sd_card[n].present
    /\ find_pc = "ret_true"
          => /\ retry_count < max_retries
             /\ out_filename = RecName(find_start + retry_count)
             /\ ~sd_card[out_filename].present
             /\ fs_open_files = 0
    /\ (/\ find_pc = "ret_true"
        /\ find_start = 0
        /\ \A k \in 0..8 : sd_card[RecName(k)].present
        /\ ~sd_card[RecName(9)].present)
          => out_filename = RecName(9) /\ retry_count = 9
    /\ find_pc = "ret_exhausted"
          => /\ retry_count = max_retries
             /\ out_filename = NoName
             /\ fs_open_files = 0
    /\ (/\ find_pc \in {"ret_true", "ret_exhausted"}
        /\ \A k \in 0..(max_retries - 1) :
              sd_card[RecName(find_start + k)].present)
          => find_pc = "ret_exhausted"

C16_Witness ==
    /\ find_pc = "ret_true"
    /\ find_start = 0
    /\ \A k \in 0..8 : sd_card[RecName(k)].present
    /\ out_filename = RecName(9)
    /\ retry_count = 9

----------------------------------------------------------------------------
\* Saving a capture with app_wav_save_from_buffer (emfile_sd.c)

\* the arguments of a call: any channel count and sample width
SaveArgs ==
    [num_samples_per_channel : 0..MaxCodecSamples,
     sample_rate_hz : {WAV_SAMPLE_RATE},
     num_channels : {0, 1, 2, 8, 9},
     bits_per_sample : {0, 8, 16, 24},
     filename : {RecName(0), RecName(1)}]

\* bytes of PCM data the call writes after the header
SaveDataBytes ==
    save_args.num_samples_per_channel * save_args.num_channels
        * (save_args.bits_per_sample \div 8)

\* the input validation at the head of the function
SaveValidate ==
    /\ save_result = "none"
    /\ save_args # NoSaveArgs
    /\ save_result' =
          IF app_wav_save_checks(emfile_mounted, save_args.num_channels,
                                 save_args.bits_per_sample) = "ok"
          THEN "validated" ELSE "false"
    /\ UNCHANGED <<taskVars, standaloneVars, codecVars, sd_card, emfile_mounted, sd_file_counter,
                   fs_open_files, find_pc, retry_count, out_filename, save_args,
                   find_start, remaining_samples, chunks_written>>

\* FS_FOpen(full_filepath, "wb"): the file is created empty, or the open fails
SaveOpen ==
    /\ save_result = "validated"
    /\ \/ /\ sd_card' = [sd_card EXCEPT ![save_args.filename] =
                            [present |-> TRUE, header |-> NoHeader, payload |-> 0]]
          /\ fs_open_files' = fs_open_files + 1
          /\ save_result' = "open"
       \/ /\ UNCHANGED <<sd_card, fs_open_files>>
          /\ save_result' = "false"
    /\ UNCHANGED <<taskVars, standaloneVars, codecVars, emfile_mounted, sd_file_counter, find_pc,
                   retry_count, out_filename, save_args, find_start, remaining_samples, chunks_written>>

\* samples of all channels (total_samples)
SaveTotalSamples == save_args.num_samples_per_channel * save_args.num_channels

\* bytes of one sample (bytes_per_sample)
SaveBytesPerSample == save_args.bits_per_sample \div 8

\* FS_FWrite of the 44-byte header; on a short write the file is closed.
\* After the header the write loop starts with all samples to write.
SaveWriteHeader ==
    /\ save_result = "open"
    /\ \/ /\ sd_card' = [sd_card EXCEPT ![save_args.filename].header =
                            app_wav_save_header(save_args.num_samples_per_channel,
                                save_args.sample_rate_hz, save_args.num_channels,
                                save_args.bits_per_sample)]
          /\ save_result' = "header"
          /\ remaining_samples' = SaveTotalSamples
          /\ UNCHANGED fs_open_files
       \/ /\ UNCHANGED <<sd_card, remaining_samples>>
          /\ fs_open_files' = fs_open_files - 1
          /\ save_result' = "false"
    /\ UNCHANGED <<taskVars, standaloneVars, codecVars, emfile_mounted, sd_file_counter, find_pc,
                   retry_count, out_filename, save_args, find_start, chunks_written>>

\* samples of the next chunk (samples_to_write)
samples_to_write ==
    IF remaining_samples > WAV_CHUNK_SIZE \div SaveBytesPerSample
    THEN WAV_CHUNK_SIZE \div SaveBytesPerSample
    ELSE remaining_samples

\* bytes of the next chunk (bytes_to_write)
bytes_to_write == samples_to_write * SaveBytesPerSample

\* byte offset into the PCM buffer of the address handed to FS_FWrite:
\* pcm_interleaved is an int16_t pointer, so adding the count of samples
\* written so far advances it by that many 2-byte elements
chunk_source ==
    (SaveTotalSamples - remaining_samples) * 2

\* one pass of the loop of FS_FWrite calls over the PCM data: the loop test,
\* and the write of the next chunk; on a short write the file is closed with
\* what was written so far
SaveWriteData ==
    /\ save_result = "header"
    /\ IF remaining_samples = 0
       THEN /\ save_result' = "data"
            /\ UNCHANGED <<sd_card, fs_open_files, remaining_samples, chunks_written>>
       ELSE \/ /\ sd_card' = [sd_card EXCEPT ![save_args.filename].payload = @ + bytes_to_write]
               /\ chunks_written' = Append(chunks_written,
                                           [src |-> chunk_source, len |-> bytes_to_write])
               /\ remaining_samples' = remaining_samples - samples_to_write
               /\ UNCHANGED <<fs_open_files, save_result>>
            \/ /\ \E written \in ShortWrites(bytes_to_write) :
                     sd_card' = [sd_card EXCEPT ![save_args.filename].payload = @ + written]
               /\ fs_open_files' = fs_open_files - 1
               /\ save_result' = "false"
               /\ UNCHANGED <<remaining_samples, chunks_written>>
    /\ UNCHANGED <<taskVars, standaloneVars, codecVars, emfile_mounted, sd_file_counter, find_pc,
                   retry_count, out_filename, save_args, find_start>>

\* FS_SyncFile after the last chunk: its failure is printed as a warning
SaveSync ==
    /\ save_result = "data"
    /\ save_result' \in {"synced", "sync_failed"}
    /\ UNCHANGED <<taskVars, standaloneVars, codecVars, sd_card, emfile_mounted, sd_file_counter,
                   fs_open_files, find_pc, retry_count, out_filename, save_args,
                   find_start, remaining_samples, chunks_written>>

\* FS_FClose, whatever FS_SyncFile returned: false when the close fails
SaveClose ==
    /\ save_result \in {"synced", "sync_failed"}
    /\ fs_open_files' = fs_open_files - 1
    /\ save_result' \in {"true", "false"}
    /\ UNCHANGED <<taskVars, standaloneVars, codecVars, sd_card, emfile_mounted, sd_file_counter,
                   find_pc, retry_count, out_filename, save_args, find_start, remaining_samples, chunks_written>>

InitSave ==
    /\ InitCore
    /\ InitPlayback
    /\ i2s_tx_active = FALSE
    /\ store = [n \in StoreNames |-> NoFile]
    /\ InitNoCodec
    /\ sd_card \in {[n \in RecNames |-> NoFile],
                    [n \in RecNames |-> IF n = RecName(0) THEN WavFile(0, 0, 1)
                                                          ELSE NoFile]}
    /\ emfile_mounted \in BOOLEAN
    /\ sd_file_counter = 0
    /\ fs_open_files = 0
    /\ find_pc = "idle"
    /\ retry_count = 0
    /\ out_filename = NoName
    /\ save_args \in SaveArgs
    /\ save_result = "none"
    /\ find_start = 0
    /\ remaining_samples = 0
    /\ chunks_written = <<>>
    /\ InitStandalone

NextSave ==
    \/ SaveValidate
    \/ SaveOpen
    \/ SaveWriteHeader
    \/ SaveWriteData
    \/ SaveSync
    \/ SaveClose

SpecSave == InitSave /\ [][NextSave]_vars

\* C20: a call with 0 or more than 8 channels, or with a sample width other
\* than 8 or 16 bits, returns false and neither opens nor creates nor changes
\* any file; with 1 to 8 channels and 8 or 16 bits, on a mounted card, the
\* validation passes and the call goes on to open the file.
C20_SaveValidation ==
    [][/\ (\/ save_args.num_channels = 0
           \/ save_args.num_channels > 8
           \/ save_args.bits_per_sample \notin {8, 16})
          => /\ save_result' = "false"
             /\ UNCHANGED <<sd_card, fs_open_files>>
       /\ (/\ SaveValidate
           /\ emfile_mounted
           /\ save_args.num_channels \in 1..8
           /\ save_args.bits_per_sample \in {8, 16})
          => save_result' = "validated"]_vars

C20_Witness ==
    /\ save_result = "false"
    /\ emfile_mounted
    /\ save_args.num_channels = 9
    /\ save_args.bits_per_sample = 16
    /\ fs_open_files = 0


\* Every operation on the Byte Store: a run is either one call of
\* app_wav_save_from_buffer or a run of the tasks of the two-task build.
InitStore == InitSave \/ InitSystem

NextStore ==
    \/ NextSave
    \/ save_args = NoSaveArgs /\ NextSystem

SpecStore == InitStore /\ [][NextStore]_vars

\* C21: when the FS_SyncFile requested after the last chunk fails, the save
\* is aborted and reported as failed: app_wav_save_from_buffer returns false.
C21_SyncFailureFailsSave ==
    [][save_result = "sync_failed" => save_result' = "false"]_vars

----------------------------------------------------------------------------
\* The command line interface (cli_task.c) in front of the control task

CMD_UNKNOWN == "CMD_UNKNOWN"

\* first words of the lines typed at the shell; "" is a line of blanks
Words == {"record", "stop", "ls", "play", "rm", "start-record", "stop-record",
          "list", "delete", "help"}

\* A line as sscanf("%15s %31s") sees it: its first word and, if there is
\* one, its second (every word here is shorter than the field widths, so
\* none is cut; what follows the second word is not read).
Lines ==
    {l \in [cmd : Words \cup {""}, arg : ArgNames \cup {NoName}] :
        l.cmd = "" => l.arg = NoName}

\* the number of fields sscanf assigned (EOF on a line without a word)
num_parsed(l) ==
    IF l.cmd = "" THEN 0 - 1 ELSE IF l.arg = NoName THEN 1 ELSE 2

\* cli_parse_command with "play" accepted without its file name
cli_parse_command_no_usage(l) ==
    IF num_parsed(l) < 1
    THEN [ok |-> FALSE, msg |-> [cmd |-> CMD_UNKNOWN, filename |-> NoName]]
    ELSE IF l.cmd = "record"
    THEN [ok |-> TRUE, msg |-> [cmd |-> CMD_START_RECORD, filename |-> NoName]]
    ELSE IF l.cmd = "ls"
    THEN [ok |-> TRUE, msg |-> [cmd |-> CMD_LIST_FILES, filename |-> NoName]]
    ELSE IF l.cmd = "play"
    THEN [ok |-> TRUE, msg |-> [cmd |-> CMD_PLAY_FILE, filename |-> l.arg]]
    ELSE IF l.cmd = "rm"
    THEN IF num_parsed(l) >= 2
         THEN [ok |-> TRUE, msg |-> [cmd |-> CMD_DELETE_FILE, filename |-> l.arg]]
         ELSE [ok |-> FALSE, msg |-> [cmd |-> CMD_UNKNOWN, filename |-> NoName]]
    ELSE [ok |-> FALSE, msg |-> [cmd |-> CMD_UNKNOWN, filename |-> NoName]]

\* cli_parse_command: its return value and the message it leaves in *msg
cli_parse_command(l) ==
    IF num_parsed(l) < 1
    THEN [ok |-> FALSE, msg |-> [cmd |-> CMD_UNKNOWN, filename |-> NoName]]
    ELSE IF l.cmd = "record"
    THEN [ok |-> TRUE, msg |-> [cmd |-> CMD_START_RECORD, filename |-> NoName]]
    ELSE IF l.cmd = "ls"
    THEN [ok |-> TRUE, msg |-> [cmd |-> CMD_LIST_FILES, filename |-> NoName]]
    ELSE IF l.cmd = "play"
    THEN IF num_parsed(l) >= 2
         THEN [ok |-> TRUE, msg |-> [cmd |-> CMD_PLAY_FILE, filename |-> l.arg]]
         ELSE [ok |-> FALSE, msg |-> [cmd |-> CMD_UNKNOWN, filename |-> NoName]]
    ELSE IF l.cmd = "rm"
    THEN IF num_parsed(l) >= 2
         THEN [ok |-> TRUE, msg |-> [cmd |-> CMD_DELETE_FILE, filename |-> l.arg]]
         ELSE [ok |-> FALSE, msg |-> [cmd |-> CMD_UNKNOWN, filename |-> NoName]]
    ELSE [ok |-> FALSE, msg |-> [cmd |-> CMD_UNKNOWN, filename |-> NoName]]

\* cli_task at the end of a line: the line is parsed and, when it is a
\* command, sent with no wait (a command that finds the queue full is lost)
CliLine(l) ==
    /\ cmds_issued < MaxCommands
    /\ cmds_issued' = cmds_issued + 1
    /\ IF cli_parse_command(l).ok /\ Len(audio_cmd_queue) < AUDIO_CMD_QUEUE_LENGTH
       THEN audio_cmd_queue' = Append(audio_cmd_queue, cli_parse_command(l).msg)
       ELSE UNCHANGED audio_cmd_queue
    /\ UNCHANGED <<fs_open_files, playbackVars, events, audio_record_queue,
                   file_read_queue, ctlVars, recVars, pdmVars, fwVars, store,
                   histVars>>

InitCli == Init

NextCli ==
    \/ \E l \in Lines : CliLine(l)
    \/ CtlReceive
    \/ CtlReceiveTimeout
    \/ CtlPlaySent
    \/ CtlPlaySendTimeout
    \/ CtlAutoStop
    \/ FileReadTakes
    \/ PdmInterrupt
    \/ RecStart
    \/ RecPoll
    \/ RecSendUnblocked
    \/ RecSendTimeout
    \/ FwReceive
    \/ FwWriteHeader
    \/ FwWriteData

SpecCli == InitCli /\ [][NextCli]_vars

\* a line that is no command: no word, a word that is none of the parser's,
\* or play / rm without a file name
Malformed(l) ==
    \/ l.cmd \notin {"record", "ls", "play", "rm"}
    \/ l.cmd \in {"play", "rm"} /\ l.arg = NoName

\* C23: a line that is no command is rejected: nothing is put on
\* audio_cmd_queue and neither the event flags nor recording_active nor any
\* task, queue, pipeline or stored file changes.
C23_MalformedLineChangesNothing ==
    [][\A l \in Lines :
          (CliLine(l) /\ Malformed(l))
             => UNCHANGED <<audio_cmd_queue, events, audio_record_queue,
                            file_read_queue, ctlVars, recVars, pdmVars, fwVars,
                            store, playbackVars, fs_open_files>>]_vars

C23_Witness ==
    /\ cmds_issued = MaxCommands
    /\ audio_cmd_queue = <<>>
    /\ cmd_msg = NoCmd
    /\ events = {EVENT_IDLE}
    /\ ~recording_active

\* C24: each of the five commands can be issued through the parser: while
\* the shell takes lines, for start-record, stop-record, list, play and
\* delete there is a line that cli_parse_command accepts and maps to that
\* command's code; so a recording in progress can be stopped by a line.
C24_EveryCommandHasALine ==
    /\ cmds_issued < MaxCommands
          => \A c \in {CMD_START_RECORD, CMD_STOP_RECORD, CMD_LIST_FILES,
                       CMD_PLAY_FILE, CMD_DELETE_FILE} :
                \E l \in Lines : /\ cli_parse_command(l).ok
                                 /\ cli_parse_command(l).msg.cmd = c
    /\ (recording_active /\ cmds_issued < MaxCommands)
          => \E l \in Lines : /\ cli_parse_command(l).ok
                              /\ cli_parse_command(l).msg.cmd = CMD_STOP_RECORD

\* ---------------------------------------------------------------------
\* The list and delete commands
\* ---------------------------------------------------------------------

\* the control task takes a list or a delete command off its queue
ListOrDelete ==
    /\ CtlReceive
    /\ Head(audio_cmd_queue).cmd \in {CMD_LIST_FILES, CMD_DELETE_FILE}

\* C25: handling a list or a delete command, in any state, leaves the
\* event flags, recording_active, the capture write index, the playback
\* cursor and every inter-task queue as they were (the command queue loses
\* only the command that was taken).
C25_ListDeleteKeepState ==
    [][ListOrDelete
         => /\ UNCHANGED <<events, recording_active, pdmVars, sinkVars>>
            /\ UNCHANGED <<audio_record_queue, file_read_queue, pcm_playback_queue, playback_queue>>
            /\ audio_cmd_queue' = Tail(audio_cmd_queue)]_vars

\* a delete was handled while a recording and a playback session ran
C25_Witness ==
    /\ cmd_msg.cmd = CMD_DELETE_FILE
    /\ ctl_pc = "autostop"
    /\ recording_active
    /\ EVENT_RECORDING \in events
    /\ fr_pc # "receive"

\* ---------------------------------------------------------------------
\* The published state flags
\* ---------------------------------------------------------------------

\* the flags that name the state of the control state machine
StateFlags == {EVENT_IDLE, EVENT_RECORDING, EVENT_PLAYING}

\* file_read_task is inside a playback session
PlaybackSessionRuns == fr_pc # "receive"

\* C26: whenever the control task waits for the next command exactly one
\* of EVENT_IDLE, EVENT_RECORDING and EVENT_PLAYING is set, and
\* EVENT_PLAYING is set for as long as a playback session runs.
C26_ExactlyOneStateFlag ==
    /\ ctl_pc = "receive" => Cardinality(events \cap StateFlags) = 1
    /\ PlaybackSessionRuns => EVENT_PLAYING \in events

\* ---------------------------------------------------------------------
\* The waits for the Sink to drain a chunk
\* ---------------------------------------------------------------------

\* the Sink still holds samples of the chunk it was given
SinkBusy == UGt0(playback_samples_remaining)

\* C27: every wait for the Sink to drain is bounded by a wait budget: in
\* each drain wait (the per-chunk and the final wait of the single-task
\* playback, the Feeder's wait of the two-task playback) the waiting task
\* has a step that leaves the wait even though the Sink has not drained,
\* so a stalled Sink cannot hold it for ever.
C27_DrainWaitsBounded ==
    /\ (ps_pc = "swap_wait" /\ SinkBusy) => ENABLED PsSwapTimeout
    /\ (ps_pc = "final_wait" /\ SinkBusy) => ENABLED PsFinish
    /\ (pb_pc = "wait" /\ SinkBusy /\ playback_active /\ ~RecordTaskReady) => ENABLED PbChunkDone

\* ---------------------------------------------------------------------
\* The payload a playback session plays
\* ---------------------------------------------------------------------

\* a stored file that holds all the PCM data its header declares
HoldsDeclared(f) == f.present /\ HeaderAccepted(f) /\ f.payload >= f.header.data_bytes

RECURSIVE SamplesIn(_)
\* the samples of a sequence of chunks sent to the Feeder
SamplesIn(chunks) ==
    IF chunks = <<>> THEN 0 ELSE Head(chunks).sample_count + SamplesIn(Tail(chunks))

\* the samples the single-task playback has handed to the Sink once its
\* streaming loop has counted total_samples down to 0: every FS_Read of the
\* session was installed as the Sink's buffer
PsSamplesHanded == ps_pos \div 2

\* C28: in both playback variants the header of a stored file decodes to
\* data_bytes / 2 samples, and a session that played the file to its end
\* has handed that many samples to the Playback Sink.
C28_WholePayloadPlayed ==
    /\ (ps_session = "done" /\ total_samples = 0 /\ HoldsDeclared(store[ps_msg.filename]))
          => /\ playback_parse_wav_header(store[ps_msg.filename])
                   = store[ps_msg.filename].header.data_bytes \div 2
             /\ PsSamplesHanded = store[ps_msg.filename].header.data_bytes \div 2
    /\ (fr_session = "complete" /\ HoldsDeclared(store[fr_msg.filename]))
          => /\ parse_wav_header(store[fr_msg.filename])
                   = store[fr_msg.filename].header.data_bytes \div 2
             /\ SamplesIn(delivered) = store[fr_msg.filename].header.data_bytes \div 2

\* ---------------------------------------------------------------------
\* The chunks app_wav_save_from_buffer writes
\* ---------------------------------------------------------------------

\* Half chunks of 16-bit samples per channel in the longest buffer saved
MaxHalfChunks == 2

\* calls that pass the validation, with buffers from empty to several
\* chunks long, of a whole number of half chunks or one sample more
ChunkArgs ==
    [num_samples_per_channel :
        {k * (WAV_CHUNK_SIZE \div 2) + d : k \in 0..MaxHalfChunks, d \in {0, 1}},
     sample_rate_hz : {WAV_SAMPLE_RATE},
     num_channels : {1, 2},
     bits_per_sample : {8, 16},
     filename : {RecName(0)}]

\* a mounted, empty card and a call of app_wav_save_from_buffer
InitChunks ==
    /\ InitCore
    /\ InitPlayback
    /\ i2s_tx_active = FALSE
    /\ store = [n \in StoreNames |-> NoFile]
    /\ InitNoCodec
    /\ sd_card = [n \in RecNames |-> NoFile]
    /\ emfile_mounted = TRUE
    /\ sd_file_counter = 0
    /\ fs_open_files = 0
    /\ find_pc = "idle"
    /\ retry_count = 0
    /\ out_filename = NoName
    /\ save_args \in ChunkArgs
    /\ save_result = "none"
    /\ find_start = 0
    /\ remaining_samples = 0
    /\ chunks_written = <<>>
    /\ InitStandalone

SpecChunks == InitChunks /\ [][NextSave]_vars

\* the write loop has ended with every sample written
SaveLoopDone == save_result \in {"data", "synced", "sync_failed", "true"}

\* C29: the header is written before any chunk; every chunk has at most
\* WAV_CHUNK_SIZE bytes; the first chunk is taken from byte 0 of the PCM
\* buffer and each later one from where the one before it ended; when the
\* loop has ended the chunks cover bytes [0, payload size) of the buffer,
\* for 8-bit and for 16-bit samples; sync and close come only then.
C29_ChunksCoverPayload ==
    /\ chunks_written # <<>> => sd_card[save_args.filename].header # NoHeader
    /\ \A i \in 1..Len(chunks_written) :
          /\ chunks_written[i].len \in 1..WAV_CHUNK_SIZE
          /\ chunks_written[i].src =
                IF i = 1 THEN 0
                ELSE chunks_written[i - 1].src + chunks_written[i - 1].len
    /\ SaveLoopDone
          => /\ remaining_samples = 0
             /\ sd_card[save_args.filename].payload = SaveDataBytes
             /\ IF chunks_written = <<>> THEN SaveDataBytes = 0
                ELSE LET last == chunks_written[Len(chunks_written)]
                     IN  last.src + last.len = SaveDataBytes

\* ---------------------------------------------------------------------
\* The names file_write_task opens for writing
\* ---------------------------------------------------------------------

\* file_write_task took a recording and its FS_FOpen(filename, "w") succeeded
FwOpened == fw_pc = "receive" /\ fw_pc' = "write_header"

\* C30: file_write_task never opens for writing a name that is already in
\* the Byte Store, so every file that was on the store stays as it was;
\* this includes the files left from before a restart, when file_counter
\* starts again at its initial value.
C30_NoExistingNameOpened ==
    [][FwOpened
         => /\ ~store[fw_filename'].present
            /\ \A n \in StoreNames : store[n].present => store'[n] = store[n]]_vars

\* ---------------------------------------------------------------------
\* The writers of audio_state_events
\* ---------------------------------------------------------------------

\* no task but the control task took a step
OtherTasksStill == UNCHANGED <<rec_pc, fw_pc, fr_pc, pb_pc>>

\* C31: the state flags of audio_state_events are written by the control
\* task only: a step that sets or clears EVENT_IDLE, EVENT_RECORDING or
\* EVENT_PLAYING is never a step of audio_record_task, file_write_task,
\* file_read_task or playback_task.
C31_OnlyControlWritesFlags ==
    [][(events' \cap StateFlags) # (events \cap StateFlags) => OtherTasksStill]_vars

\* ---------------------------------------------------------------------
\* The way of a Completed-Capture Record
\* ---------------------------------------------------------------------

\* audio_record_task ends a session: it leaves its monitoring loop, or the
\* xQueueSend it was blocked in
RecSessionEnds == rec_pc \in {"monitor", "send_blocked"} /\ rec_pc' = "wait_event"

\* C32: every record audio_record_task creates is consumed exactly once by
\* file_write_task: when the record task ends a session its record is on
\* audio_record_queue (none is dropped, also after the 100 ms send
\* timeout), and the queue changes only by that append or by
\* file_write_task taking its head, unchanged, as the record it processes.
C32_RecordConsumedOnce ==
    [][/\ RecSessionEnds
            => audio_record_queue' = Append(audio_record_queue, record_msg')
       /\ audio_record_queue' # audio_record_queue
            => \/ audio_record_queue' = Append(audio_record_queue, record_msg')
               \/ /\ audio_record_queue' = Tail(audio_record_queue)
                  /\ fw_msg' = Head(audio_record_queue)]_vars

\* ---------------------------------------------------------------------
\* The capture write index
\* ---------------------------------------------------------------------

\* audio_data_ptr - recorded_data for a value p of the pointer
IndexOf(p) == IF p = NullPtr THEN 0 ELSE p

\* C33: the capture write index never decreases during a capture; it goes
\* back to zero only when audio_record_task starts a new capture
\* (app_pdm_pcm_activate), and the count put into the record is the index
\* as it stood when the capture ended.
C33_IndexMonotone ==
    [][/\ IndexOf(audio_data_ptr') < IndexOf(audio_data_ptr)
            => /\ rec_pc = "wait_event"
               /\ rec_pc' = "monitor"
               /\ IndexOf(audio_data_ptr') = 0
       /\ (rec_pc = "monitor" /\ rec_pc' # "monitor")
            => record_msg'.sample_count = IndexOf(audio_data_ptr)]_vars

\* a second capture has started from index zero after a first one that
\* recorded samples
C33_Witness ==
    /\ sessions = 2
    /\ rec_pc = "monitor"
    /\ audio_data_ptr = 0
    /\ record_msg.sample_count > 0

\* ---------------------------------------------------------------------
\* The Sink's count of remaining samples
\* ---------------------------------------------------------------------

\* the stored files, the first of them with one 16-bit sample more than a
\* whole number of stereo frames
OddLibrary ==
    [PlayLibrary EXCEPT ![AudioName(1)] =
        WavFile(2 * TailSamples + 2, 2 * TailSamples + 2, 1)]

InitOdd ==
    /\ InitCore
    /\ InitPlayback
    /\ InitOffline
    /\ i2s_tx_active = TRUE
    /\ store = OddLibrary

SpecOdd == InitOdd /\ [][NextPlay]_vars

\* C34: while the Feeder waits for the chunk of n samples it installed, the
\* Sink's count is at most n and counts exactly the samples of the chunk
\* not yet read, so it reaches 0 when the chunk is exhausted, never wraps
\* below zero and the handler never reads past the n samples; this for odd
\* n as for even n.
C34_CountReachesZero ==
    pb_pc = "wait"
        => /\ playback_samples_remaining \in 0..pcm_msg.sample_count
           /\ playback_buffer_ptr # NoPtr
                 => /\ playback_buffer_ptr.off <= pcm_msg.sample_count
                    /\ playback_buffer_ptr.off + playback_samples_remaining
                          = pcm_msg.sample_count

\* ---------------------------------------------------------------------
\* Names made from the build time (emfile_sd.c)
\* ---------------------------------------------------------------------

\* snprintf "%02u"
Pad2(n) ==
    LET d == Digits(n)
    IN  IF Len(d) >= 2 THEN d ELSE <<0, d[1]>>

\* days_in_month[] of app_emfile_generate_timestamp_filename
days_in_month == <<31, 28, 31, 30, 31, 30, 31, 31, 30, 31, 30, 31>>

\* the fixed timezone offset in hours (KST is UTC+9)
KST_OFFSET_HOURS == 9

\* what emfile_parse_compile_time can store: the dates and times __DATE__
\* and __TIME__ can name, first and last days of months and hours around
\* the change of day included
CompileTimes ==
    {t \in [year : {2025, 2026}, month : 1..12, day : {1, 15, 28, 30, 31},
            hour : {0, 14, 15, 23}, minute : {0, 59}, second : {0, 59},
            parsed : {TRUE}] : t.day <= days_in_month[t.month]}

\* "%04u%02u%02u_%02u%02u%02u.wav"
TimestampName(year, month, day, hour, minute, second) ==
    <<Pad4(year), Pad2(month), Pad2(day), "_", Pad2(hour), Pad2(minute), Pad2(second), ".wav">>

\* the name returned when the build time was not parsed
FallbackName == <<"recording.wav">>

\* the date and time after the change of day of the function: the hour
\* taken back by 24, the day, month and year moved on
RollOver(t) ==
    LET day1 == t.day + 1
        wrap_month == day1 > days_in_month[t.month]
        month1 == IF wrap_month THEN t.month + 1 ELSE t.month
    IN  [t EXCEPT !.hour = t.hour - 24,
                  !.day = IF wrap_month THEN 1 ELSE day1,
                  !.month = IF month1 > 12 THEN 1 ELSE month1,
                  !.year = IF month1 > 12 THEN t.year + 1 ELSE t.year]

\* the name of the build time moved on by the timezone offset
KstTimestampName(ct) ==
    IF ~ct.parsed THEN FallbackName
    ELSE LET s0 == [ct EXCEPT !.hour = ct.hour + KST_OFFSET_HOURS]
             t == IF s0.hour >= 24 THEN RollOver(s0) ELSE s0
         IN  TimestampName(t.year, t.month, t.day, t.hour, t.minute, t.second)

\* app_emfile_generate_timestamp_filename: the fields of _compile_time are
\* copied as they are, then the hour is tested for 24 or more
app_emfile_generate_timestamp_filename(ct) ==
    IF ~ct.parsed THEN FallbackName
    ELSE LET t == IF ct.hour >= 24 THEN RollOver(ct) ELSE ct
         IN  TimestampName(t.year, t.month, t.day, t.hour, t.minute, t.second)

\* a call of app_emfile_generate_timestamp_filename
TsGenerate ==
    /\ ts_filename = NoName
    /\ ts_filename' = app_emfile_generate_timestamp_filename(compile_time)
    /\ UNCHANGED <<fs_open_files, taskVars, emfileVars, codecVars, compile_time,
                   mainVars, cliVars>>

\* the build time has been parsed, or not, and no name asked for
InitTime ==
    /\ InitCore
    /\ InitPlayback
    /\ i2s_tx_active = FALSE
    /\ store = [n \in StoreNames |-> NoFile]
    /\ InitNoCodec
    /\ sd_card = [n \in RecNames |-> NoFile]
    /\ emfile_mounted = TRUE
    /\ sd_file_counter = 0
    /\ fs_open_files = 0
    /\ find_pc = "idle"
    /\ retry_count = 0
    /\ out_filename = NoName
    /\ save_args = NoSaveArgs
    /\ save_result = "none"
    /\ find_start = 0
    /\ remaining_samples = 0
    /\ chunks_written = <<>>
    /\ compile_time \in CompileTimes \cup {NoCompileTime}
    /\ ts_filename = NoName
    /\ InitMainLoop
    /\ InitCliTask

SpecTime == InitTime /\ [][TsGenerate]_vars

\* C35: the name returned for a parsed build time is YYYYMMDD_HHMMSS.wav of
\* the build time plus 9 hours, with day, month and year rolled over when
\* the shifted hour reaches 24.
C35_TimestampIsKst ==
    (ts_filename # NoName /\ compile_time.parsed)
        => ts_filename = KstTimestampName(compile_time)

\* ---------------------------------------------------------------------
\* Idle and Recording
\* ---------------------------------------------------------------------

\* C36: EVENT_IDLE and EVENT_RECORDING are never set at the same time,
\* whatever the order of the commands and of the steps of the tasks.
C36_IdleExcludesRecording ==
    ~(EVENT_IDLE \in events /\ EVENT_RECORDING \in events)

\* ---------------------------------------------------------------------
\* The files the list command reports
\* ---------------------------------------------------------------------

\* the names handle_list_files tries to open: "audio_%03d.wav" for i = 1..10
ListCandidates == {AudioName(i) : i \in 1..10}

\* FS_GetFileSize
FS_GetFileSize(f) == (IF f.header = NoHeader THEN 0 ELSE WAV_HEADER_SIZE) + f.payload

\* the lines handle_list_files prints: name and size of every candidate
\* that could be opened
ListReport ==
    {[name |-> n, size |-> FS_GetFileSize(store[n])] :
        n \in {c \in ListCandidates : store[c].present}}

\* audio_record_task's xQueueSend of the record of a capture that ran to
\* buffer-full
RecordSend ==
    /\ sessions < MaxRecordings
    /\ Len(audio_record_queue) < AUDIO_RECORD_QUEUE_LENGTH
    /\ audio_record_queue' = Append(audio_record_queue, CaptureRecord(Capacity))
    /\ sessions' = sessions + 1
    /\ UNCHANGED <<fs_open_files, playbackVars, events, audio_cmd_queue, file_read_queue,
                   cmds_issued, ctlVars, recVars, pdmVars, fwVars, store,
                   session_records, session_end>>

\* file_write_task on a card that takes every open and every header
NextWriter ==
    \/ RecordSend
    \/ FwReceive /\ fw_pc' = "write_header"
    \/ FwWriteHeader /\ fw_pc' = "write_data"
    \/ FwWriteData

\* Names the store can hold in a run of MaxRecordings recordings
WriterNames == StoreNames \cup {AudioName(n) : n \in 1..MaxRecordings}

\* the system as created, with an empty card
InitWriter ==
    /\ InitCore
    /\ InitPlayback
    /\ InitOffline
    /\ i2s_tx_active = FALSE
    /\ store = [n \in WriterNames |-> NoFile]

SpecWriter == InitWriter /\ [][NextWriter]_vars

\* file_write_task has saved a file under name n and the file is still there
SavedAndPresent(n) ==
    /\ store[n].present
    /\ store[n].payload > 0
    /\ \E k \in 1..(file_counter - 1) : n = AudioName(k)
    /\ ~(fw_pc # "receive" /\ n = fw_filename)

\* C37: every file file_write_task has saved and that is still in the Byte
\* Store is reported by the list command with its size, however many
\* recordings were made in the run.
C37_ListReportsEverySavedFile ==
    \A n \in WriterNames :
        SavedAndPresent(n)
            => [name |-> n, size |-> FS_GetFileSize(store[n])] \in ListReport

----------------------------------------------------------------------------
\* The button-driven loop of main() (main.c), with the interrupt handlers it
\* runs beside: the user button, the Capture Source and the Playback Sink.
\* The loop is split at the calls it makes, so that the handlers run between
\* them.

PDM_HALF_FIFO_SIZE == PDM_HW_FIFO_SIZE \div 2
IGNORED_SAMPLES == PDM_HW_FIFO_SIZE

\* what no step of the loop and no handler of this build changes themselves
\* (the card is written by app_wav_save_from_buffer)
mainRestVars == <<events, audio_cmd_queue, audio_record_queue, file_read_queue,
                  cmds_issued, ctlVars, recVars, fwVars, store, histVars,
                  plays_issued, readVars, feedVars, singleVars, codecVars,
                  timeVars, cliVars, emfile_mounted, sd_file_counter, find_pc,
                  retry_count, out_filename, find_start>>
cardVars == <<sd_card, fs_open_files, remaining_samples, chunks_written>>

\* user_button_interrupt_handler
user_button_interrupt_handler == button_flag' = TRUE

\* an interrupt ends Cy_SysPm_CpuEnterDeepSleep
WakeUp == main_pc' = IF main_pc = "sleep" THEN "top" ELSE main_pc

\* the user presses the button: the pin interrupt fires
ButtonPress ==
    /\ ~btn_pressed
    /\ btn_pressed' = TRUE
    /\ user_button_interrupt_handler
    /\ WakeUp
    /\ UNCHANGED <<mainRestVars, cardVars, save_args, save_result, pdmVars, sinkVars,
                   is_recording, is_playing, audio_recorded, need_save_to_sd,
                   i2s_flag, recorded_data_size>>

\* the user releases the button: the pin interrupt fires on this edge or
\* not, as the board configuration (not in the sources) has it
ButtonRelease ==
    /\ btn_pressed
    /\ btn_pressed' = FALSE
    /\ \/ user_button_interrupt_handler /\ WakeUp
       \/ UNCHANGED <<button_flag, main_pc>>
    /\ UNCHANGED <<mainRestVars, cardVars, save_args, save_result, pdmVars, sinkVars,
                   is_recording, is_playing, audio_recorded, need_save_to_sd,
                   i2s_flag, recorded_data_size>>

\* the limit the loop stops the recording at
MainBufferLimit == BUFFER_SIZE * NUM_CHANNELS - NUM_CHANNELS * PDM_HALF_FIFO_SIZE

\* the head of the loop: with the button held, a recording is started or
\* watched; otherwise a running recording is stopped and the loop goes on to
\* the save
MainTop ==
    /\ main_pc = "top"
    /\ IF button_flag /\ btn_pressed
       THEN LET fresh == audio_data_ptr = NullPtr
                ptr == IF fresh THEN 0 ELSE audio_data_ptr
                rec == is_recording \/ fresh
                full == rec /\ MainBufferLimit < ptr
            IN  /\ audio_data_ptr' = ptr
                /\ recorded_data_size' = IF rec THEN ptr ELSE recorded_data_size
                /\ is_recording' = (rec /\ ~full)
                /\ audio_recorded' = (audio_recorded \/ full)
                /\ need_save_to_sd' = (need_save_to_sd \/ full)
                /\ pdm_active' = IF full THEN FALSE ELSE (pdm_active \/ fresh)
                /\ UNCHANGED <<button_flag, main_pc>>
       ELSE /\ button_flag' = (button_flag /\ ~is_recording)
            /\ is_recording' = FALSE
            /\ audio_recorded' = (audio_recorded \/ is_recording)
            /\ need_save_to_sd' = (need_save_to_sd \/ is_recording)
            /\ pdm_active' = (pdm_active /\ ~is_recording)
            /\ main_pc' = "save"
            /\ UNCHANGED <<audio_data_ptr, recorded_data_size>>
    /\ UNCHANGED <<mainRestVars, cardVars, save_args, save_result, sinkVars, btn_pressed,
                   is_playing, i2s_flag>>

\* "if (need_save_to_sd && audio_recorded)": app_wav_save_from_buffer is
\* called with the whole buffer and the name of app_emfile_next_filename
\* (the history of written chunks starts anew with the call)
MainSave ==
    /\ main_pc = "save"
    /\ IF need_save_to_sd /\ audio_recorded
       THEN /\ save_args' = [num_samples_per_channel |-> BUFFER_SIZE,
                             sample_rate_hz |-> WAV_SAMPLE_RATE,
                             num_channels |-> NUM_CHANNELS,
                             bits_per_sample |-> WAV_BITS_PER_SAMPLE,
                             filename |-> app_emfile_next_filename]
            /\ save_result' = "none"
            /\ chunks_written' = <<>>
            /\ main_pc' = "saving"
       ELSE /\ main_pc' = "play"
            /\ UNCHANGED <<save_args, save_result, chunks_written>>
    /\ UNCHANGED <<mainRestVars, sd_card, fs_open_files, remaining_samples, pdmVars, sinkVars, button_flag, btn_pressed,
                   is_recording, is_playing, audio_recorded, need_save_to_sd,
                   i2s_flag, recorded_data_size>>

\* app_wav_save_from_buffer has returned, true or false: the save flag is
\* cleared
MainSaveReturn ==
    /\ main_pc = "saving"
    /\ save_result \in {"true", "false"}
    /\ need_save_to_sd' = FALSE
    /\ save_args' = NoSaveArgs
    /\ main_pc' = "play"
    /\ UNCHANGED <<mainRestVars, cardVars, save_result, pdmVars, sinkVars, button_flag,
                   btn_pressed, is_recording, is_playing, audio_recorded, i2s_flag,
                   recorded_data_size>>

\* "if (!is_playing)": with data recorded, the ignored samples are taken off
\* recorded_data_size (a uint32_t), and the playback is started, or the
\* recording is dropped as too short
MainPlay ==
    /\ main_pc = "play"
    /\ IF ~is_playing /\ audio_data_ptr # NullPtr
       THEN LET size == recorded_data_size - NUM_CHANNELS * IGNORED_SAMPLES
            IN  /\ recorded_data_size' = size
                /\ IF UGt0(size)
                   THEN /\ is_playing' = TRUE
                        /\ audio_data_ptr' = NUM_CHANNELS * IGNORED_SAMPLES
                        /\ i2s_tx_active' = TRUE
                        /\ UNCHANGED i2s_flag
                   ELSE /\ i2s_flag' = TRUE
                        /\ UNCHANGED <<is_playing, audio_data_ptr, i2s_tx_active>>
       ELSE UNCHANGED <<recorded_data_size, is_playing, audio_data_ptr, i2s_tx_active,
                        i2s_flag>>
    /\ main_pc' = "flag"
    /\ UNCHANGED <<mainRestVars, cardVars, save_args, save_result, pdm_active,
                   playback_buffer_ptr, playback_samples_remaining, playback_active,
                   button_flag, btn_pressed, is_recording, audio_recorded,
                   need_save_to_sd>>

\* "if (i2s_flag)": the playback is over; the flags are cleared, the
\* transmitter is stopped and the CPU sleeps until the next interrupt
MainFlag ==
    /\ main_pc = "flag"
    /\ IF i2s_flag
       THEN /\ i2s_flag' = FALSE
            /\ audio_data_ptr' = NullPtr
            /\ is_playing' = FALSE
            /\ audio_recorded' = FALSE
            /\ i2s_tx_active' = FALSE
            /\ main_pc' = "sleep"
       ELSE /\ main_pc' = "top"
            /\ UNCHANGED <<i2s_flag, audio_data_ptr, is_playing, audio_recorded,
                           i2s_tx_active>>
    /\ UNCHANGED <<mainRestVars, cardVars, save_args, save_result, pdm_active,
                   playback_buffer_ptr, playback_samples_remaining, playback_active,
                   button_flag, btn_pressed, is_recording, need_save_to_sd,
                   recorded_data_size>>

\* the test at the head of i2s_tx_interrupt_handler: playback data is written
SinkFeeding ==
    /\ playback_active
    /\ playback_buffer_ptr # NoPtr
    /\ UGt0(playback_samples_remaining)

\* i2s_tx_interrupt_handler in this build, TX FIFO trigger: i2s_flag is set
\* in the branch that writes playback data, when the count reaches 0;
\* otherwise zeros are written
MainI2sInterrupt ==
    /\ i2s_tx_active
    /\ IF SinkFeeding
       THEN /\ i2s_tx_interrupt_handler
            /\ i2s_flag' = (i2s_flag \/ playback_samples_remaining' = 0)
       ELSE UNCHANGED <<playback_buffer_ptr, playback_samples_remaining,
                        playback_active, i2s_flag>>
    /\ WakeUp
    /\ UNCHANGED <<mainRestVars, cardVars, save_args, save_result, pdmVars, i2s_tx_active,
                   button_flag, btn_pressed, is_recording, is_playing,
                   audio_recorded, need_save_to_sd, recorded_data_size>>

\* main() has initialised emFile and the audio blocks; the card is empty
InitMain ==
    /\ InitCore
    /\ InitPlayback
    /\ i2s_tx_active = FALSE
    /\ store = [n \in StoreNames |-> NoFile]
    /\ InitNoCodec
    /\ sd_card = [n \in RecNames |-> NoFile]
    /\ emfile_mounted = TRUE
    /\ sd_file_counter = 0
    /\ fs_open_files = 0
    /\ find_pc = "idle"
    /\ retry_count = 0
    /\ out_filename = NoName
    /\ save_args = NoSaveArgs
    /\ save_result = "none"
    /\ find_start = 0
    /\ remaining_samples = 0
    /\ chunks_written = <<>>
    /\ InitStandalone

NextMain ==
    \/ ButtonPress
    \/ ButtonRelease
    \/ PdmInterrupt
    \/ MainI2sInterrupt
    \/ MainTop
    \/ MainSave
    \/ NextSave
    \/ MainSaveReturn
    \/ MainPlay
    \/ MainFlag

SpecMain == InitMain /\ [][NextMain]_vars

\* C38: every playback the main loop starts completes: while the loop is in
\* the playing state, the completion flag i2s_flag is set or the sink
\* interrupt handler is still writing playback data, on its way to setting
\* it, so that the loop does not stay in the playing state.
C38_PlaybackCompletes == is_playing => (i2s_flag \/ SinkFeeding)

----------------------------------------------------------------------------
\* cli_task character by character (cli_task.c): the loop body that runs for
\* every character taken from cli_rx_queue

\* '\b' and 0x7F; '\r' and '\n'; the characters of a line
Backspaces == {"BS", "DEL"}
Newlines == {"CR", "LF"}
LineChars == {"l", "s", " "}
RxChars == LineChars \cup Backspaces \cup Newlines

\* the unsigned comparison a < b of a uint32_t with a small constant
ULt(a, b) == 0 <= a /\ a < b

\* the C string in the buffer: the characters before the first '\0'
CString(buf) ==
    LET end == CHOOSE i \in 0..CLI_MAX_CMD_LENGTH :
                   /\ i < CLI_MAX_CMD_LENGTH => buf[i] = NUL
                   /\ \A j \in 0..(i - 1) : buf[j] # NUL
    IN  [i \in 1..end |-> buf[i - 1]]

\* sscanf's %s: white space is skipped, then a word runs up to white space
\* (no word typed here reaches the field widths 15 and 31)
RECURSIVE SkipBlanks(_)
SkipBlanks(str) ==
    IF str # <<>> /\ Head(str) = " " THEN SkipBlanks(Tail(str)) ELSE str

RECURSIVE TakeWord(_)
TakeWord(str) ==
    IF str = <<>> \/ Head(str) = " " THEN <<>>
    ELSE <<Head(str)>> \o TakeWord(Tail(str))

\* the first word as strcmp sees it: "ls" is the one command that can be
\* typed with LineChars
WordText(w) ==
    IF w = <<>> THEN "" ELSE IF w = <<"l", "s">> THEN "ls" ELSE "help"

\* the second word as a file name: none of the store's names can be typed
\* with LineChars
ArgText(w) == IF w = <<>> THEN NoName ELSE MissingName

\* sscanf(cmd_str, "%15s %31s", cmd, arg)
ScanLine(str) ==
    LET from1 == SkipBlanks(str)
        word1 == TakeWord(from1)
        from2 == SkipBlanks(SubSeq(from1, Len(word1) + 1, Len(from1)))
        word2 == TakeWord(from2)
    IN  [cmd |-> WordText(word1), arg |-> ArgText(word2)]

\* backspace: the index steps back unless it is 0
CliBackspace ==
    /\ cmd_index' = IF UGt0(cmd_index) THEN cmd_index - 1 ELSE cmd_index
    /\ UNCHANGED <<cmd_buffer, audio_cmd_queue, line_too_long>>

\* newline: a line that is not empty is terminated, parsed and, when it is
\* a command, sent with no wait; the index returns to 0
CliNewline ==
    /\ IF UGt0(cmd_index)
       THEN LET buf == [cmd_buffer EXCEPT ![cmd_index] = NUL]
                parsed == cli_parse_command(ScanLine(CString(buf)))
            IN  /\ cmd_buffer' = buf
                /\ IF parsed.ok /\ Len(audio_cmd_queue) < AUDIO_CMD_QUEUE_LENGTH
                   THEN audio_cmd_queue' = Append(audio_cmd_queue, parsed.msg)
                   ELSE UNCHANGED audio_cmd_queue
                /\ cmd_index' = 0
       ELSE UNCHANGED <<cmd_buffer, audio_cmd_queue, cmd_index>>
    /\ line_too_long' = FALSE

\* any other character, with the last place of the buffer usable too
CliAddChar_to_end(c) ==
    IF ULt(cmd_index, CLI_MAX_CMD_LENGTH)
    THEN /\ cmd_buffer' = [cmd_buffer EXCEPT ![cmd_index] = c]
         /\ cmd_index' = cmd_index + 1
         /\ UNCHANGED <<audio_cmd_queue, line_too_long>>
    ELSE /\ cmd_index' = 0
         /\ line_too_long' = TRUE
         /\ UNCHANGED <<cmd_buffer, audio_cmd_queue>>

\* any other character: it is stored while there is room before the last
\* place of the buffer; otherwise "Command too long" is printed and the
\* index returns to 0
CliAddChar(c) ==
    IF ULt(cmd_index, CLI_MAX_CMD_LENGTH - 1)
    THEN /\ cmd_buffer' = [cmd_buffer EXCEPT ![cmd_index] = c]
         /\ cmd_index' = cmd_index + 1
         /\ UNCHANGED <<audio_cmd_queue, line_too_long>>
    ELSE /\ cmd_index' = 0
         /\ line_too_long' = TRUE
         /\ UNCHANGED <<cmd_buffer, audio_cmd_queue>>

\* one pass of the loop of cli_task: xQueueReceive returned the character c
CliChar(c) ==
    /\ rx_char' = c
    /\ IF c \in Backspaces THEN CliBackspace
       ELSE IF c \in Newlines THEN CliNewline
       ELSE CliAddChar(c)
    /\ UNCHANGED <<fs_open_files, events, audio_record_queue, file_read_queue,
                   cmds_issued, ctlVars, recVars, pdmVars, fwVars, store, histVars,
                   sinkVars, plays_issued, readVars, feedVars, singleVars,
                   emfileVars, codecVars, timeVars, mainVars>>

NextChars == \E c \in RxChars : CliChar(c)

SpecChars == Init /\ [][NextChars]_vars

\* C39: after "Command too long" was reported for a line, nothing of that
\* line is dispatched: the newline that ends it adds no command to
\* audio_cmd_queue.
C39_LongLineNotDispatched ==
    [][(line_too_long /\ rx_char' \in Newlines) => UNCHANGED audio_cmd_queue]_vars

\* C40: after any sequence of received characters cmd_index is at least 0
\* and at most CLI_MAX_CMD_LENGTH - 1, so that the character stored at
\* cmd_buffer[cmd_index] and the '\0' stored there at a newline are inside
\* the buffer, and a backspace never takes the index below 0.
C40_IndexWithinBuffer == cmd_index \in 0..(CLI_MAX_CMD_LENGTH - 1)

\* a line ran over the buffer, and a backspace was received with the index
\* at its lowest
C40_Witness ==
    /\ line_too_long
    /\ rx_char \in Backspaces
    /\ cmd_index = 0
    /\ cmd_buffer[CLI_MAX_CMD_LENGTH - 2] # NUL

====
